---- MODULE Spec2Model ----
(***************************************************************************)
(* Dynamic lexicon growth of haze (src/haze/lexicon.py): the synchronous   *)
(* Lexicon (absorb / decay / get_resonant_words / stats), its injection    *)
(* into the co-occurrence field, and the lock-guarded AsyncLexicon.        *)
(*                                                                         *)
(* Numbers.  Weights and boosts are Python floats.  They are modelled as   *)
(* exact decimals: an integer w stands for the weight w / Scale.  Scale is *)
(* chosen so that every product weight * decay_rate the model can form is  *)
(* an integer (see DecayExact), so no rounding is introduced by the model. *)
(* Binary floating point rounding (1.1 + 0.1 = 1.2000000000000002) is not  *)
(* modelled.                                                               *)
(*                                                                         *)
(* Text.  A text is a sequence of one-character strings; a word is a       *)
(* sequence of lower-case characters.                                      *)
(***************************************************************************)
EXTENDS Integers, Sequences, FiniteSets, TLC

\* ------------------------------------------------------------------ bounds
MaxCalls == 2
MaxDecays == 2
HistMaxCalls == 102
NumTasks == 2
ResonantN == 2
StatsMaxCalls == 12

\* ------------------------------------------------------- program constants
HistoryLimit == 100
GrowthWindow == 10
min_word_length == 3

\* decay_rate is a constructor argument, <<numerator, denominator>>:
\* 0.99 (the default) or 0.5.
DefaultDecayRate == <<99, 100>>
DecayRates == {DefaultDecayRate, <<1, 2>>}

RECURSIVE Pow(_, _)
Pow(b, n) == IF n = 0 THEN 1 ELSE b * Pow(b, n - 1)

\* One unit of weight is 1 / Scale.  Boosts are multiples of 1/20 and each
\* decay divides by a divisor of 100, so MaxDecays decays stay exact.
Scale == 20 * Pow(DefaultDecayRate[2], MaxDecays)
WeightCap == 2 * Scale
ReinforceStep == Scale \div 10
RemoveThreshold == Scale \div 10
DefaultWeight == Scale

\* boost arguments: 1.0 (the default), 0.2, 0.05, 2.5
DefaultBoost == Scale
Boosts == {DefaultBoost, Scale \div 5, Scale \div 20, (5 * Scale) \div 2}

Sources == {"user", "self"}
DefaultSource == "user"

\* ------------------------------------------------------------------- text
\* "Abc, abc abc abc"
TextA == <<"A","b","c",","," ","a","b","c"," ","a","b","c"," ","a","b","c">>
\* "bca abc abc abc de"
TextB == <<"b","c","a"," ","a","b","c"," ","a","b","c"," ","a","b","c"," ","d","e">>
\* "de x abc"
TextC == <<"d","e"," ","x"," ","a","b","c">>
\* ", de"
TextD == <<","," ","d","e">>
Texts == {TextA, TextB, TextC, TextD}
\* "abc bca cab de abc dab": six runs, the fourth of two characters
TextF == <<"a","b","c"," ","b","c","a"," ","c","a","b"," ","d","e"," ",
           "a","b","c"," ","d","a","b">>
\* ""
TextEmpty == <<>>
\* "abc abc de x"
TextE == <<"a","b","c"," ","a","b","c"," ","d","e"," ","x">>

\* str.lower() on the characters used
Lower(c) == IF c = "A" THEN "a" ELSE c
LowerText(text) == [i \in 1..Len(text) |-> Lower(text[i])]

\* the regular expression class \w on the characters used
IsWordChar(c) == c \notin {" ", ","}

\* re.findall(r'\b\w+\b', s): the maximal runs of word characters, in order
RECURSIVE FindRuns(_, _, _, _)
FindRuns(s, i, cur, acc) ==
    IF i > Len(s)
    THEN IF cur = <<>> THEN acc ELSE Append(acc, cur)
    ELSE IF IsWordChar(s[i])
         THEN FindRuns(s, i + 1, Append(cur, s[i]), acc)
         ELSE FindRuns(s, i + 1, <<>>,
                       IF cur = <<>> THEN acc ELSE Append(acc, cur))

FindAllWords(text) == FindRuns(LowerText(text), 1, <<>>, <<>>)

\* as LongEnough, but a word one character shorter is kept too
LongEnough_OneShorter(w) == Len(w) >= min_word_length - 1

\* Lexicon._extract_words
LongEnough(w) == Len(w) >= min_word_length
ExtractWords(text) == SelectSeq(FindAllWords(text), LongEnough)

\* as ExtractTrigrams, but over the words that _extract_words keeps
ExtractTrigrams_OfLongWords(text) ==
    LET words == ExtractWords(text)
    IN  [i \in 1..(IF Len(words) >= 2 THEN Len(words) - 2 ELSE 0) |->
            <<words[i], words[i + 1], words[i + 2]>>]

\* Lexicon._extract_trigrams
ExtractTrigrams(text) ==
    LET words == FindAllWords(text)
    IN  [i \in 1..(IF Len(words) >= 2 THEN Len(words) - 2 ELSE 0) |->
            <<words[i], words[i + 1], words[i + 2]>>]

\* -------------------------------------------------------------- tokenizer
\* Vocab is character level: a word encodes to the ids of its characters
\* that the vocabulary knows; a word of unknown characters encodes to <<>>.
VocabChars == <<"a", "b", "c", "d", "e">>
InVocab(c) == \E k \in 1..Len(VocabChars) : VocabChars[k] = c
TokenOf(c) == (CHOOSE k \in 1..Len(VocabChars) : VocabChars[k] = c) - 1
Encode(word) ==
    LET known == SelectSeq(word, InVocab)
    IN  [i \in 1..Len(known) |-> TokenOf(known[i])]

\* ---------------------------------------------------------- Lexicon state
VARIABLES
    absorbed_words,     \* set of words
    word_weights,       \* dict word -> weight, as a sequence of <<word, weight>>
                        \* in insertion order
    absorbed_trigrams,  \* set of <<w1, w2, w3>>
    history,            \* sequence of AbsorptionRecord
    bigram_counts,      \* field.bigram_counts: <<a, b>> -> count, present keys only
    trigram_counts,     \* field.trigram_counts: <<<<a, b>>, c>> -> count
    decay_rate,         \* <<numerator, denominator>>
    now,                \* time.time(): advances with every absorb
    inject_calls,       \* history variable: trigram -> number of _inject_trigram calls
    all_sources,        \* history variable: source tags of all absorb calls made
    calls,              \* history variable: number of absorb calls made
    decays,             \* history variable: number of decay calls made
    ret,                \* what the last call returned
    \* AsyncLexicon
    locked,             \* _field_lock._locked
    waiters,            \* _field_lock._waiters: tasks suspended in acquire()
    db_path,            \* TRUE when db_path is given and aiosqlite is importable
    db_conn,            \* _db_conn: "none", "open" or "closed"
    db_words,           \* committed rows of table absorbed_words: word -> row
    db_trigrams,        \* committed rows of table absorbed_trigrams
    db_pending,         \* rows written on the connection and not yet committed
    pc,                 \* task -> where the coroutine of its call stands
    op,                 \* task -> the call it makes
    tret,               \* task -> the record it holds, then what its call returned
    ppos,               \* task -> number of awaits of _persist_record completed
    order,              \* history variable: tasks in the order they got the lock
    waited,             \* history variable: tasks that were suspended in acquire()
    scope,              \* the "async with" statement on the AsyncLexicon: "out",
                        \* "in", "left", or "entry_failed"
    twin                \* a second Lexicon given the same calls, with what its
                        \* last call returned: [l |-> ..., ret |-> ...], or <<>>

lexvars == <<absorbed_words, word_weights, absorbed_trigrams, history,
             bigram_counts, trigram_counts, decay_rate, now, inject_calls,
             all_sources>>

\* The Lexicon object and its field as one value.
Lex == [absorbed_words |-> absorbed_words, word_weights |-> word_weights,
        absorbed_trigrams |-> absorbed_trigrams, history |-> history,
        bigram_counts |-> bigram_counts, trigram_counts |-> trigram_counts,
        decay_rate |-> decay_rate, now |-> now, inject_calls |-> inject_calls,
        all_sources |-> all_sources]

SetLex(l) ==
    /\ absorbed_words' = l.absorbed_words
    /\ word_weights' = l.word_weights
    /\ absorbed_trigrams' = l.absorbed_trigrams
    /\ history' = l.history
    /\ bigram_counts' = l.bigram_counts
    /\ trigram_counts' = l.trigram_counts
    /\ decay_rate' = l.decay_rate
    /\ now' = l.now
    /\ inject_calls' = l.inject_calls
    /\ all_sources' = l.all_sources

InitLex(l) ==
    /\ absorbed_words = l.absorbed_words
    /\ word_weights = l.word_weights
    /\ absorbed_trigrams = l.absorbed_trigrams
    /\ history = l.history
    /\ bigram_counts = l.bigram_counts
    /\ trigram_counts = l.trigram_counts
    /\ decay_rate = l.decay_rate
    /\ now = l.now
    /\ inject_calls = l.inject_calls
    /\ all_sources = l.all_sources

\* Lexicon.__init__ over a given field
NewLexicon(rate, bigrams) ==
    [absorbed_words |-> {}, word_weights |-> <<>>, absorbed_trigrams |-> {},
     history |-> <<>>, bigram_counts |-> bigrams, trigram_counts |-> <<>>,
     decay_rate |-> rate, now |-> 0, inject_calls |-> <<>>,
     all_sources |-> {}]

\* ------------------------------------------------------------ dict helpers
\* a Counter / dict as a function on its present keys
CountOf(f, k) == IF k \in DOMAIN f THEN f[k] ELSE 0
AddCount(f, k, n) ==
    [x \in (DOMAIN f) \cup {k} |-> IF x = k THEN CountOf(f, k) + n ELSE f[x]]

\* word_weights: insertion-ordered dict
Keys(ww) == {ww[i][1] : i \in 1..Len(ww)}
IndexOf(ww, word) == CHOOSE i \in 1..Len(ww) : ww[i][1] = word
\* dict.get(word, default)
WeightGet(ww, word, default) ==
    IF word \in Keys(ww) THEN ww[IndexOf(ww, word)][2] ELSE default
\* dict[word] = w : an existing key keeps its position, a new key goes last
WeightSet(ww, word, w) ==
    IF word \in Keys(ww)
    THEN [ww EXCEPT ![IndexOf(ww, word)] = <<word, w>>]
    ELSE Append(ww, <<word, w>>)

\* ------------------------------------------------------ Lexicon._inject_trigram
\* as IntOf, but a positive fraction is rounded up
IntOf_RoundsUp(w) ==
    IF w >= 0 THEN (w + Scale - 1) \div Scale ELSE 0 - ((0 - w) \div Scale)

\* int(weight): truncation toward zero
IntOf(w) == IF w >= 0 THEN w \div Scale ELSE 0 - ((0 - w) \div Scale)

\* as InjectCounts, but the second pair starts at the first token of w2
InjectCounts_FirstOfW2(l, t1, t2, t3, weight) ==
    LET b1 == AddCount(l.bigram_counts, <<t1[Len(t1)], t2[1]>>, IntOf(weight))
        b2 == AddCount(b1, <<t2[1], t3[1]>>, IntOf(weight))
        t == AddCount(l.trigram_counts, <<<<t1[Len(t1)], t2[1]>>, t2[Len(t2)]>>,
                      IntOf(weight))
    IN  [l EXCEPT !.bigram_counts = b2, !.trigram_counts = t]

\* as InjectCounts, but the triple count is left for later
InjectCounts_PairsOnly(l, t1, t2, t3, weight) ==
    LET b1 == AddCount(l.bigram_counts, <<t1[Len(t1)], t2[1]>>, IntOf(weight))
        b2 == AddCount(b1, <<t2[Len(t2)], t3[1]>>, IntOf(weight))
    IN  [l EXCEPT !.bigram_counts = b2]

\* the three increments of lines 221-234, on a lexicon value l
InjectCounts(l, t1, t2, t3, weight) ==
    LET last_w1 == t1[Len(t1)]
        first_w2 == t2[1]
        last_w2 == t2[Len(t2)]
        first_w3 == t3[1]
        b1 == AddCount(l.bigram_counts, <<last_w1, first_w2>>, IntOf(weight))
        b2 == AddCount(b1, <<last_w2, first_w3>>, IntOf(weight))
        t == AddCount(l.trigram_counts, <<<<last_w1, first_w2>>, last_w2>>,
                      IntOf(weight))
    IN  [l EXCEPT !.bigram_counts = b2, !.trigram_counts = t]

\* as InjectTrigram, but each increment is made when its own words encode
InjectTrigram_Partial(l, tri, weight) ==
    LET w1 == Encode(tri[1])
        w2 == Encode(tri[2])
        w3 == Encode(tri[3])
        counted == [l EXCEPT !.inject_calls = AddCount(l.inject_calls, tri, 1)]
        first == IF w1 # <<>> /\ w2 # <<>>
                 THEN [counted EXCEPT
                          !.bigram_counts =
                              AddCount(@, <<w1[Len(w1)], w2[1]>>, IntOf(weight)),
                          !.trigram_counts =
                              AddCount(@, <<<<w1[Len(w1)], w2[1]>>, w2[Len(w2)]>>,
                                       IntOf(weight))]
                 ELSE counted
    IN  IF w2 # <<>> /\ w3 # <<>>
        THEN [first EXCEPT !.bigram_counts =
                              AddCount(@, <<w2[Len(w2)], w3[1]>>, IntOf(weight))]
        ELSE first

InjectTrigram(l, tri, weight) ==
    LET w1_tokens == Encode(tri[1])
        w2_tokens == Encode(tri[2])
        w3_tokens == Encode(tri[3])
        counted == [l EXCEPT !.inject_calls = AddCount(l.inject_calls, tri, 1)]
    IN  IF w1_tokens = <<>> \/ w2_tokens = <<>> \/ w3_tokens = <<>>
        THEN counted
        ELSE InjectCounts(counted, w1_tokens, w2_tokens, w3_tokens, weight)

\* ------------------------------------------------------------ Lexicon.absorb
\* as AbsorbWord, but the reinforcement step is scaled by boost
AbsorbWord_BoostScaled(st, word, boost) ==
    IF word \notin st.l.absorbed_words
    THEN [l |-> [st.l EXCEPT !.absorbed_words = @ \cup {word},
                             !.word_weights = Append(@, <<word, boost>>)],
          new |-> Append(st.new, word)]
    ELSE [l |-> [st.l EXCEPT !.word_weights =
                    LET i == CHOOSE j \in 1..Len(@) : @[j][1] = word
                        w == @[i][2] + (boost \div 10)
                    IN  [@ EXCEPT ![i] = <<word, IF 2 * Scale < w THEN 2 * Scale
                                                 ELSE w>>]],
          new |-> st.new]

\* as AbsorbWord, but a reinforced word is reported in new_words too
AbsorbWord_ListsReinforced(st, word, boost) ==
    IF word \notin st.l.absorbed_words
    THEN [l |-> [st.l EXCEPT !.absorbed_words = @ \cup {word},
                             !.word_weights = WeightSet(@, word, boost)],
          new |-> Append(st.new, word)]
    ELSE [l |-> [st.l EXCEPT !.word_weights =
                    LET w == WeightGet(@, word, DefaultWeight) + ReinforceStep
                    IN  WeightSet(@, word, IF WeightCap < w THEN WeightCap ELSE w)],
          new |-> Append(st.new, word)]

\* lines 164-171: one word of the loop; st = [l |-> lexicon, new |-> new_words]
AbsorbWord(st, word, boost) ==
    IF word \notin st.l.absorbed_words
    THEN [l |-> [st.l EXCEPT !.absorbed_words = @ \cup {word},
                             !.word_weights = WeightSet(@, word, boost)],
          new |-> Append(st.new, word)]
    ELSE [l |-> [st.l EXCEPT !.word_weights =
                    LET w == WeightGet(@, word, DefaultWeight) + ReinforceStep
                    IN  WeightSet(@, word, IF WeightCap < w THEN WeightCap ELSE w)],
          new |-> st.new]

RECURSIVE AbsorbWords(_, _, _, _)
AbsorbWords(st, words, i, boost) ==
    IF i > Len(words) THEN st
    ELSE AbsorbWords(AbsorbWord(st, words[i], boost), words, i + 1, boost)

\* as AbsorbTrigram, without the membership test
AbsorbTrigram_NoCheck(st, tri, boost) ==
    [l |-> InjectTrigram([st.l EXCEPT !.absorbed_trigrams = @ \cup {tri}],
                         tri, boost),
     new |-> Append(st.new, tri)]

\* as AbsorbTrigram, but the trigram is not added to absorbed_trigrams
AbsorbTrigram_NotMarked(st, tri, boost) ==
    IF tri \notin st.l.absorbed_trigrams
    THEN [l |-> InjectTrigram(st.l, tri, boost), new |-> Append(st.new, tri)]
    ELSE st

\* as AbsorbTrigram, but a trigram with a word that does not encode is
\* neither added to absorbed_trigrams nor reported
AbsorbTrigram_MarksEncodable(st, tri, boost) ==
    IF tri \notin st.l.absorbed_trigrams
    THEN IF \E i \in 1..3 : Encode(tri[i]) = <<>>
         THEN [l |-> InjectTrigram(st.l, tri, boost), new |-> st.new]
         ELSE [l |-> InjectTrigram([st.l EXCEPT !.absorbed_trigrams = @ \cup {tri}],
                                   tri, boost),
               new |-> Append(st.new, tri)]
    ELSE st

\* as AbsorbTrigram, but absorbed_trigrams holds the latest trigram only
AbsorbTrigram_KeepsLatest(st, tri, boost) ==
    IF tri \notin st.l.absorbed_trigrams
    THEN [l |-> InjectTrigram([st.l EXCEPT !.absorbed_trigrams = {tri}],
                              tri, boost),
          new |-> Append(st.new, tri)]
    ELSE st

\* lines 174-179: one trigram of the loop
AbsorbTrigram(st, tri, boost) ==
    IF tri \notin st.l.absorbed_trigrams
    THEN [l |-> InjectTrigram([st.l EXCEPT !.absorbed_trigrams = @ \cup {tri}],
                              tri, boost),
          new |-> Append(st.new, tri)]
    ELSE st

RECURSIVE AbsorbTrigrams(_, _, _, _)
AbsorbTrigrams(st, trigrams, i, boost) ==
    IF i > Len(trigrams) THEN st
    ELSE AbsorbTrigrams(AbsorbTrigram(st, trigrams[i], boost), trigrams, i + 1, boost)

\* as PushHistory, but keeping the first HistoryLimit records
PushHistory_KeepsOldest(h, record) ==
    LET all == Append(h, record)
    IN  IF Len(all) > HistoryLimit THEN SubSeq(all, 1, HistoryLimit) ELSE all

\* lines 189-192: append, keep the last HistoryLimit records
PushHistory(h, record) ==
    LET all == Append(h, record)
    IN  IF Len(all) > HistoryLimit
        THEN SubSeq(all, Len(all) - HistoryLimit + 1, Len(all))
        ELSE all

\* AbsorptionRecord.count
RecordCount(r) == Len(r.words) + Len(r.trigrams)

\* absorb(text, source, boost) on lexicon l: [l |-> the lexicon after, ret |-> record]
LexAbsorb(l, text, source, boost) ==
    LET words == ExtractWords(text)
        trigrams == ExtractTrigrams(text)
        afterWords == AbsorbWords([l |-> l, new |-> <<>>], words, 1, boost)
        afterTris == AbsorbTrigrams([l |-> afterWords.l, new |-> <<>>],
                                    trigrams, 1, boost)
        record == [timestamp |-> l.now, source |-> source,
                   words |-> afterWords.new, trigrams |-> afterTris.new]
    IN  [l |-> [afterTris.l EXCEPT !.history = PushHistory(@, record),
                                   !.now = @ + 1,
                                   !.all_sources = @ \cup {source}],
         ret |-> record]

\* ------------------------------------------------------------- Lexicon.decay
\* weight * decay_rate; exact because Scale carries the denominators
\* as Decayed, but the weight is left as it is
Decayed_Unchanged(w, rate) == w

Decayed(w, rate) == (w \div rate[2]) * rate[1]

\* as WordsToRemove, but a word whose new weight equals the threshold goes too
WordsToRemove_AtThreshold(l) ==
    SelectSeq([i \in 1..Len(l.word_weights) |-> l.word_weights[i]],
              LAMBDA e : Decayed(e[2], l.decay_rate) <= RemoveThreshold)

\* lines 250-256: the words whose new weight is below the threshold
WordsToRemove(l) ==
    SelectSeq([i \in 1..Len(l.word_weights) |-> l.word_weights[i]],
              LAMBDA e : Decayed(e[2], l.decay_rate) < RemoveThreshold)

\* as LexDecay, but the removed words stay in absorbed_words
LexDecay_KeepsSet(l) ==
    LET gone == {e[1] : e \in {WordsToRemove(l)[i] : i \in 1..Len(WordsToRemove(l))}}
        kept == SelectSeq(l.word_weights, LAMBDA e : e[1] \notin gone)
    IN  [l |-> [l EXCEPT !.word_weights =
                            [i \in 1..Len(kept) |->
                                <<kept[i][1], Decayed(kept[i][2], l.decay_rate)>>]],
         ret |-> Len(WordsToRemove(l))]

\* as LexDecay, but the trigrams of a removed word are forgotten with it
LexDecay_DropsTrigrams(l) ==
    LET gone == {e[1] : e \in {WordsToRemove(l)[i] : i \in 1..Len(WordsToRemove(l))}}
        kept == SelectSeq(l.word_weights, LAMBDA e : e[1] \notin gone)
    IN  [l |-> [l EXCEPT !.absorbed_words = @ \ gone,
                         !.absorbed_trigrams =
                            {tri \in @ : \A i \in 1..3 : tri[i] \notin gone},
                         !.word_weights =
                            [i \in 1..Len(kept) |->
                                <<kept[i][1], Decayed(kept[i][2], l.decay_rate)>>]],
         ret |-> Len(WordsToRemove(l))]

\* as LexDecay, but the weights decay twice when the clock reads an odd time
LexDecay_ByClock(l) ==
    LET gone == {e[1] : e \in {WordsToRemove(l)[i] : i \in 1..Len(WordsToRemove(l))}}
        kept == SelectSeq(l.word_weights, LAMBDA e : e[1] \notin gone)
    IN  [l |-> [l EXCEPT !.absorbed_words = @ \ gone,
                         !.word_weights =
                            [i \in 1..Len(kept) |->
                                <<kept[i][1],
                                  IF l.now % 2 = 1
                                  THEN Decayed(Decayed(kept[i][2], l.decay_rate),
                                               l.decay_rate)
                                  ELSE Decayed(kept[i][2], l.decay_rate)>>]],
         ret |-> Len(WordsToRemove(l))]

LexDecay(l) ==
    LET gone == {e[1] : e \in {WordsToRemove(l)[i] : i \in 1..Len(WordsToRemove(l))}}
        kept == SelectSeq(l.word_weights, LAMBDA e : e[1] \notin gone)
    IN  [l |-> [l EXCEPT !.absorbed_words = @ \ gone,
                         !.word_weights =
                            [i \in 1..Len(kept) |->
                                <<kept[i][1], Decayed(kept[i][2], l.decay_rate)>>]],
         ret |-> Len(WordsToRemove(l))]

\* ------------------------------------------------- Lexicon.get_resonant_words
\* sorted(items, key=weight, reverse=True) is stable: an item goes after
\* every item of greater or equal weight that precedes it in the dict
\* as SortedByWeight, but an item goes before the items of equal weight
RECURSIVE SortedByWeight_TiesReversed(_, _, _)
SortedByWeight_TiesReversed(ww, i, acc) ==
    IF i > Len(ww) THEN acc
    ELSE LET k == Cardinality({j \in 1..Len(acc) : acc[j][2] > ww[i][2]})
         IN  SortedByWeight_TiesReversed(ww, i + 1,
                 SubSeq(acc, 1, k) \o <<ww[i]>> \o SubSeq(acc, k + 1, Len(acc)))

RECURSIVE SortedByWeight(_, _, _)
SortedByWeight(ww, i, acc) ==
    IF i > Len(ww) THEN acc
    ELSE LET k == Cardinality({j \in 1..Len(acc) : acc[j][2] >= ww[i][2]})
         IN  SortedByWeight(ww, i + 1,
                 SubSeq(acc, 1, k) \o <<ww[i]>> \o SubSeq(acc, k + 1, Len(acc)))

LexResonant(l, n) ==
    LET sorted_words == SortedByWeight(l.word_weights, 1, <<>>)
        m == IF n < Len(sorted_words) THEN n ELSE Len(sorted_words)
    IN  [i \in 1..m |-> sorted_words[i][1]]

\* ------------------------------------------------------------- Lexicon.stats
RECURSIVE SumCounts(_, _)
SumCounts(h, i) == IF i > Len(h) THEN 0 ELSE RecordCount(h[i]) + SumCounts(h, i + 1)

\* as Recent, but the whole history
Recent_All(h) == h

\* history[-GrowthWindow:]
Recent(h) ==
    IF Len(h) > GrowthWindow THEN SubSeq(h, Len(h) - GrowthWindow + 1, Len(h)) ELSE h

\* as LexStats, but the sources are counted over history[-GrowthWindow:]
LexStats_SourcesInWindow(l) ==
    [total_words |-> Cardinality(l.absorbed_words),
     total_trigrams |-> Cardinality(l.absorbed_trigrams),
     unique_sources |-> Cardinality({Recent(l.history)[i].source :
                                        i \in 1..Len(Recent(l.history))}),
     recent_absorptions |-> Len(l.history),
     growth_rate |-> IF Len(l.history) >= 2
                     THEN <<SumCounts(Recent(l.history), 1), Len(Recent(l.history))>>
                     ELSE <<0, 1>>]

\* as LexStats, but the mean is taken of a history of any length
LexStats_AlwaysMean(l) ==
    [total_words |-> Cardinality(l.absorbed_words),
     total_trigrams |-> Cardinality(l.absorbed_trigrams),
     unique_sources |-> Cardinality({l.history[i].source : i \in 1..Len(l.history)}),
     recent_absorptions |-> Len(l.history),
     growth_rate |-> <<SumCounts(Recent(l.history), 1), Len(Recent(l.history))>>]

\* growth_rate is the float total / len, kept as the fraction <<total, len>>
LexStats(l) ==
    [total_words |-> Cardinality(l.absorbed_words),
     total_trigrams |-> Cardinality(l.absorbed_trigrams),
     unique_sources |-> Cardinality({l.history[i].source : i \in 1..Len(l.history)}),
     recent_absorptions |-> Len(l.history),
     growth_rate |-> IF Len(l.history) >= 2
                     THEN <<SumCounts(Recent(l.history), 1), Len(Recent(l.history))>>
                     ELSE <<0, 1>>]

\* ------------------------------------------------------------------ the calls
asyncvars == <<locked, waiters, db_path, db_conn, db_words, db_trigrams,
               db_pending, pc, op, tret, ppos, order, waited, scope>>

vars == <<absorbed_words, word_weights, absorbed_trigrams, history,
          bigram_counts, trigram_counts, decay_rate, now, inject_calls,
          all_sources, calls, decays, ret, asyncvars, twin>>

Tasks == 1..NumTasks
NoRows == [words |-> <<>>, trigrams |-> <<>>]

\* AsyncLexicon.__init__
AsyncInitVars(path) ==
    /\ locked = FALSE
    /\ waiters = <<>>
    /\ db_path = path
    /\ db_conn = "none"
    /\ db_words = <<>>
    /\ db_trigrams = <<>>
    /\ db_pending = NoRows
    /\ pc = [t \in Tasks |-> "idle"]
    /\ op = [t \in Tasks |-> [name |-> "none"]]
    /\ tret = [t \in Tasks |-> [op |-> "none"]]
    /\ ppos = [t \in Tasks |-> 0]
    /\ order = <<>>
    /\ waited = {}
    /\ scope = "out"

\* the field as built from the corpus: one pair already counted
CorpusBigrams == [k \in {<<2, 0>>} |-> 5]

Init ==
    /\ \E rate \in DecayRates :
          InitLex(NewLexicon(rate, CorpusBigrams))
    /\ calls = 0
    /\ decays = 0
    /\ ret = [op |-> "none"]
    /\ AsyncInitVars(FALSE)
    /\ twin = <<>>

Absorb(text, source, boost) ==
    /\ LET r == LexAbsorb(Lex, text, source, boost)
       IN  /\ SetLex(r.l)
           /\ ret' = [op |-> "absorb", text |-> text, boost |-> boost,
                       value |-> r.ret]
    /\ calls' = calls + 1
    /\ UNCHANGED <<decays, asyncvars, twin>>

Decay ==
    /\ decays < MaxDecays
    /\ LET r == LexDecay(Lex)
       IN  /\ SetLex(r.l)
           /\ ret' = [op |-> "decay", value |-> r.ret]
    /\ decays' = decays + 1
    /\ UNCHANGED <<calls, asyncvars, twin>>

Next ==
    \/ /\ calls < MaxCalls
       /\ \E text \in Texts, boost \in Boosts : Absorb(text, DefaultSource, boost)
    \/ Decay

Spec == Init /\ [][Next]_vars

\* Long runs of absorb calls with the default source and boost, past the
\* history limit.
HistTexts == {TextA, TextD}

HistNext ==
    /\ calls < HistMaxCalls
    /\ \E text \in HistTexts : Absorb(text, DefaultSource, DefaultBoost)

HistorySpec == Init /\ [][HistNext]_vars

\* Calls that exercise the injection into the field: the empty text, a text
\* too short for a word or a trigram, a trigram with a word the vocabulary
\* cannot encode, and boosts whose integer parts are 1, 0, 2 and -1.
InjectTexts == {TextEmpty, TextD, TextE, TextB}
InjectBoosts == {DefaultBoost, Scale \div 5, (5 * Scale) \div 2, 0 - Scale}

InjectNext ==
    \/ /\ calls < MaxCalls
       /\ \E text \in InjectTexts, boost \in InjectBoosts :
              Absorb(text, DefaultSource, boost)
    \/ Decay

InjectSpec == Init /\ [][InjectNext]_vars

\* decay called again and again, at decay_rate 0.5 or 1.0, between and after
\* the absorb calls.  The number of decay calls is not bounded; the history
\* variable decays stops counting at MaxDecays.
RepeatRates == {<<1, 2>>, <<1, 1>>}
RepeatTexts == {TextB, TextC}
RepeatBoosts == {DefaultBoost, Scale \div 5}

RepeatInit ==
    /\ \E rate \in RepeatRates :
          InitLex(NewLexicon(rate, CorpusBigrams))
    /\ calls = 0
    /\ decays = 0
    /\ ret = [op |-> "none"]
    /\ AsyncInitVars(FALSE)
    /\ twin = <<>>

DecayAgain ==
    /\ LET r == LexDecay(Lex)
       IN  /\ SetLex(r.l)
           /\ ret' = [op |-> "decay", value |-> r.ret]
    /\ decays' = IF decays < MaxDecays THEN decays + 1 ELSE decays
    /\ UNCHANGED <<calls, asyncvars, twin>>

RepeatNext ==
    \/ /\ calls < MaxCalls
       /\ \E text \in RepeatTexts, boost \in RepeatBoosts :
              Absorb(text, DefaultSource, boost)
    \/ DecayAgain

\* get_resonant_words(n) and stats() on the plain Lexicon: they return a value
\* and change nothing
Resonant(n) ==
    /\ ret' = [op |-> "get_resonant_words", n |-> n, value |-> LexResonant(Lex, n)]
    /\ UNCHANGED <<lexvars, calls, decays, asyncvars, twin>>

Stats ==
    /\ ret' = [op |-> "stats", value |-> LexStats(Lex)]
    /\ UNCHANGED <<lexvars, calls, decays, asyncvars, twin>>

\* stats() between absorptions, up to a history longer than the window of
\* the growth rate: a text with one new word and one new trigram, one with
\* two new words and three new trigrams, one with nothing to absorb.
StatsTexts == {TextA, TextB, TextD}

StatsNext ==
    \/ /\ calls < StatsMaxCalls
       /\ \E text \in StatsTexts : Absorb(text, DefaultSource, DefaultBoost)
    \/ Stats

StatsSpec == Init /\ [][StatsNext]_vars

\* stats() between absorptions from two sources, past the limit of the
\* history: the first MaxCalls calls take any text and source, the later
\* ones a text with nothing to absorb from the default source.
SourceTexts == {TextA, TextD}

SourceNext ==
    \/ /\ calls < MaxCalls
       /\ \E text \in SourceTexts, source \in Sources :
              Absorb(text, source, DefaultBoost)
    \/ /\ MaxCalls <= calls /\ calls < HistMaxCalls
       /\ Absorb(TextD, DefaultSource, DefaultBoost)
    \/ Stats

SourceSpec == Init /\ [][SourceNext]_vars

\* Two Lexicon instances over equal fields and with equal parameters, given
\* the same absorb and decay calls.  time.time() is all they do not share:
\* the clock of the second starts at another reading and advances by
\* another amount between calls.
ClockStarts == {3}
ClockSteps == {1, 2}
TwinTexts == {TextB, TextC}
TwinBoosts == {DefaultBoost, Scale \div 5}

TwinInit ==
    /\ \E rate \in DecayRates :
          /\ InitLex(NewLexicon(rate, CorpusBigrams))
          /\ \E start \in ClockStarts :
                twin = [l |-> [NewLexicon(rate, CorpusBigrams) EXCEPT !.now = start],
                        ret |-> [op |-> "none"]]
    /\ calls = 0
    /\ decays = 0
    /\ ret = [op |-> "none"]
    /\ AsyncInitVars(FALSE)

TwinAbsorb(text, source, boost, step) ==
    /\ LET r == LexAbsorb(Lex, text, source, boost)
       IN  /\ SetLex(r.l)
           /\ ret' = [op |-> "absorb", text |-> text, boost |-> boost,
                       value |-> r.ret]
    /\ LET r == LexAbsorb(twin.l, text, source, boost)
       IN  twin' = [l |-> [r.l EXCEPT !.now = twin.l.now + step],
                    ret |-> [op |-> "absorb", text |-> text, boost |-> boost,
                             value |-> r.ret]]
    /\ calls' = calls + 1
    /\ UNCHANGED <<decays, asyncvars>>

TwinDecay ==
    /\ decays < MaxDecays
    /\ LET r == LexDecay(Lex)
       IN  /\ SetLex(r.l)
           /\ ret' = [op |-> "decay", value |-> r.ret]
    /\ LET r == LexDecay(twin.l)
       IN  twin' = [l |-> r.l, ret |-> [op |-> "decay", value |-> r.ret]]
    /\ decays' = decays + 1
    /\ UNCHANGED <<calls, asyncvars>>

TwinNext ==
    \/ /\ calls < MaxCalls
       /\ \E text \in TwinTexts, source \in Sources, boost \in TwinBoosts,
             step \in ClockSteps : TwinAbsorb(text, source, boost, step)
    \/ TwinDecay

TwinSpec == TwinInit /\ [][TwinNext]_vars

\* Texts of six, five, four, one and no runs, with a short word inside, at
\* the end or alone, absorbed between decays.
ExtractTexts == {TextF, TextB, TextE, TextD, TextEmpty}

ExtractNext ==
    \/ /\ calls < MaxCalls
       /\ \E text \in ExtractTexts : Absorb(text, DefaultSource, DefaultBoost)
    \/ Decay

ExtractSpec == Init /\ [][ExtractNext]_vars

\* All four operations of the Lexicon, with boosts 0.2, 0.4 and 1.0.
QueryTexts == {TextB, TextC}
QueryBoosts == {Scale \div 5, (2 * Scale) \div 5, DefaultBoost}

QueryNext ==
    \/ /\ calls < MaxCalls
       /\ \E text \in QueryTexts, boost \in QueryBoosts :
              Absorb(text, DefaultSource, boost)
    \/ Decay
    \/ \E n \in 1..ResonantN : Resonant(n)
    \/ Stats

QuerySpec == Init /\ [][QueryNext]_vars

\* the caller keeps calling decay
RepeatSpec == RepeatInit /\ [][RepeatNext]_vars /\ WF_vars(DecayAgain)

\* -------------------------------------------------------------- AsyncLexicon
\* The calls the tasks make.
AsyncTexts == {TextA, TextB}
AsyncBoosts == {DefaultBoost}
AbsorbOps ==
    {[name |-> "absorb", text |-> text, source |-> DefaultSource, boost |-> boost] :
        text \in AsyncTexts, boost \in AsyncBoosts}
AsyncOps ==
    AbsorbOps \cup {[name |-> "decay"], [name |-> "get_resonant_words", n |-> ResonantN],
                    [name |-> "stats"]}

AsyncInit ==
    /\ \E rate \in DecayRates : InitLex(NewLexicon(rate, CorpusBigrams))
    /\ calls = 0
    /\ decays = 0
    /\ ret = [op |-> "none"]
    /\ \E path \in BOOLEAN : AsyncInitVars(path)
    /\ twin = <<>>

\* __aenter__ returns: with a path and aiosqlite, after connect() and
\* _init_db(); otherwise at once, with no connection
AEnter ==
    /\ scope = "out"
    /\ scope' = "in"
    /\ db_conn' = IF db_path THEN "open" ELSE db_conn
    /\ UNCHANGED <<lexvars, calls, decays, ret, locked, waiters, db_path, db_words,
                   db_trigrams, db_pending, pc, op, tret, ppos, order, waited, twin>>

\* __aenter__ raises: connect() fails and _db_conn is not assigned, or
\* _init_db() fails after _db_conn was assigned.  The with statement then
\* runs neither its body nor __aexit__.
AEnterFail ==
    /\ scope = "out"
    /\ db_path
    /\ scope' = "entry_failed"
    /\ \/ UNCHANGED db_conn
       \/ db_conn' = "open"
    /\ UNCHANGED <<lexvars, calls, decays, ret, locked, waiters, db_path, db_words,
                   db_trigrams, db_pending, pc, op, tret, ppos, order, waited, twin>>

\* as AExit, but _db_conn is reset to None after the close
AExit_ClearsHandle ==
    /\ scope = "in"
    /\ scope' = "left"
    /\ db_conn' = "none"
    /\ UNCHANGED <<lexvars, calls, decays, ret, locked, waiters, db_path, db_words,
                   db_trigrams, db_pending, pc, op, tret, ppos, order, waited, twin>>

\* __aexit__, run when the body of the with statement ends or raises: close
\* the connection if there is one; _db_conn stays set
AExit ==
    /\ scope = "in"
    /\ scope' = "left"
    /\ db_conn' = IF db_conn = "open" THEN "closed" ELSE db_conn
    /\ UNCHANGED <<lexvars, calls, decays, ret, locked, waiters, db_path, db_words,
                   db_trigrams, db_pending, pc, op, tret, ppos, order, waited, twin>>

\* as UsesLock, but decay runs without the lock
UsesLock_NotDecay(o) == o.name # "decay"

\* absorb, decay, get_resonant_words and stats all run "async with self._field_lock"
UsesLock(o) == o.name \in {"absorb", "decay", "get_resonant_words", "stats"}

\* asyncio.Lock.acquire() returns at once when the lock is free and nobody waits
LockFree_Always == TRUE

LockFree == ~locked /\ waiters = <<>>

\* A task calls one of absorb / decay / get_resonant_words / stats and reaches
\* "async with self._field_lock": it takes the lock or is suspended behind it.
\* Tasks are interchangeable, so they are started in the order of their numbers.
Call(t, o) ==
    /\ pc[t] = "idle"
    /\ \A u \in Tasks : u < t => pc[u] # "idle"
    /\ o.name = "decay" => decays < MaxDecays
    /\ op' = [op EXCEPT ![t] = o]
    /\ decays' = IF o.name = "decay" THEN decays + 1 ELSE decays
    /\ IF ~UsesLock(o) \/ LockFree
       THEN /\ locked' = (locked \/ UsesLock(o))
            /\ pc' = [pc EXCEPT ![t] = "locked"]
            /\ order' = Append(order, t)
            /\ UNCHANGED <<waiters, waited>>
       ELSE /\ waiters' = Append(waiters, t)
            /\ pc' = [pc EXCEPT ![t] = "waiting"]
            /\ waited' = waited \cup {t}
            /\ UNCHANGED <<locked, order>>
    /\ UNCHANGED <<lexvars, calls, ret, db_path, scope, db_conn, db_words, db_trigrams,
                   db_pending, tret, ppos, twin>>

\* release() wakes the first waiter, which then holds the lock
Wake(t) ==
    /\ pc[t] = "waiting"
    /\ ~locked
    /\ waiters # <<>> /\ Head(waiters) = t
    /\ locked' = TRUE
    /\ waiters' = Tail(waiters)
    /\ pc' = [pc EXCEPT ![t] = "locked"]
    /\ order' = Append(order, t)
    /\ UNCHANGED <<lexvars, calls, decays, ret, db_path, scope, db_conn, db_words,
                   db_trigrams, db_pending, op, tret, ppos, waited, twin>>

\* the call on self._sync that the wrapper method makes under the lock
WrapCall(o, l) ==
    CASE o.name = "absorb" -> LexAbsorb(l, o.text, o.source, o.boost)
      [] o.name = "decay" -> LexDecay(l)
      [] o.name = "get_resonant_words" -> [l |-> l, ret |-> LexResonant(l, o.n)]
      [] o.name = "stats" -> [l |-> l, ret |-> LexStats(l)]

\* as MustPersist, but only a record with new words is persisted
MustPersist_WordsOnly(o, record) ==
    o.name = "absorb" /\ db_conn # "none" /\ Len(record.words) > 0

\* as MustPersist, without the test of _db_conn
MustPersist_AnyConn(o, record) == o.name = "absorb" /\ RecordCount(record) > 0

\* "if self._db_conn and record.count > 0"
MustPersist(o, record) ==
    o.name = "absorb" /\ db_conn # "none" /\ RecordCount(record) > 0

\* The body of the with block up to its first await: the synchronous call,
\* then either the start of _persist_record or the return, which releases.
Body(t) ==
    /\ pc[t] = "locked"
    /\ LET r == WrapCall(op[t], Lex)
       IN  /\ SetLex(r.l)
           /\ tret' = [tret EXCEPT ![t] = [op |-> op[t].name, value |-> r.ret]]
           /\ IF MustPersist(op[t], r.ret)
              THEN /\ pc' = [pc EXCEPT ![t] = "persist"]
                   /\ ppos' = [ppos EXCEPT ![t] = 0]
                   /\ UNCHANGED locked
              ELSE /\ pc' = [pc EXCEPT ![t] = "done"]
                   /\ locked' = (locked /\ ~UsesLock(op[t]))
                   /\ UNCHANGED ppos
    /\ UNCHANGED <<calls, decays, ret, waiters, db_path, scope, db_conn, db_words,
                   db_trigrams, db_pending, op, order, waited, twin>>

\* INSERT OR REPLACE: the row for a key replaces any earlier one
PutRow(rows, key, row) ==
    [k \in (DOMAIN rows) \cup {key} |-> IF k = key THEN row ELSE rows[k]]
\* as Merge, but the pending rows are dropped
Merge_DropsPending(rows, more) == rows

Merge(rows, more) ==
    [k \in (DOMAIN rows) \cup (DOMAIN more) |->
        IF k \in DOMAIN more THEN more[k] ELSE rows[k]]

\* One await of _persist_record completes: cursor(), one execute per new
\* word and per new trigram, then commit(), after which absorb returns.
PersistStep(t) ==
    /\ pc[t] = "persist"
    /\ db_conn = "open"
    /\ LET record == tret[t].value
           nw == Len(record.words)
           nt == Len(record.trigrams)
           k == ppos[t]
       IN  \/ /\ k = 0
              /\ ppos' = [ppos EXCEPT ![t] = 1]
              /\ UNCHANGED <<db_words, db_trigrams, db_pending, pc, locked>>
           \/ /\ 1 <= k /\ k <= nw
              /\ db_pending' = [db_pending EXCEPT !.words =
                    PutRow(@, record.words[k],
                           [weight |-> WeightGet(word_weights, record.words[k],
                                                 DefaultWeight),
                            source |-> record.source,
                            timestamp |-> record.timestamp])]
              /\ ppos' = [ppos EXCEPT ![t] = k + 1]
              /\ UNCHANGED <<db_words, db_trigrams, pc, locked>>
           \/ /\ nw < k /\ k <= nw + nt
              /\ db_pending' = [db_pending EXCEPT !.trigrams =
                    PutRow(@, record.trigrams[k - nw],
                           [source |-> record.source,
                            timestamp |-> record.timestamp])]
              /\ ppos' = [ppos EXCEPT ![t] = k + 1]
              /\ UNCHANGED <<db_words, db_trigrams, pc, locked>>
           \/ /\ k = nw + nt + 1
              /\ db_words' = Merge(db_words, db_pending.words)
              /\ db_trigrams' = Merge(db_trigrams, db_pending.trigrams)
              /\ db_pending' = NoRows
              /\ pc' = [pc EXCEPT ![t] = "done"]
              /\ locked' = FALSE
              /\ UNCHANGED ppos
    /\ UNCHANGED <<lexvars, calls, decays, ret, waiters, db_path, scope, db_conn, op, tret,
                   order, waited, twin>>

\* as PersistFail, but the lock stays held
PersistFail_KeepsLock(t) ==
    /\ pc[t] = "persist"
    /\ pc' = [pc EXCEPT ![t] = "failed"]
    /\ UNCHANGED <<lexvars, calls, decays, ret, locked, waiters, db_path, scope,
                   db_conn, db_words, db_trigrams, db_pending, op, tret, ppos,
                   order, waited, twin>>

\* The pending await of _persist_record raises (I/O error, closed connection):
\* the exception leaves the with block, which releases the lock.
PersistFail(t) ==
    /\ pc[t] = "persist"
    /\ pc' = [pc EXCEPT ![t] = "failed"]
    /\ locked' = FALSE
    /\ UNCHANGED <<lexvars, calls, decays, ret, waiters, db_path, scope, db_conn, db_words,
                   db_trigrams, db_pending, op, tret, ppos, order, waited, twin>>

AsyncNext ==
    \/ AEnter
    \/ AEnterFail
    \/ AExit
    \/ \E t \in Tasks, o \in AsyncOps : Call(t, o)
    \/ \E t \in Tasks : Wake(t)
    \/ \E t \in Tasks : Body(t)
    \/ \E t \in Tasks : PersistStep(t)
    \/ \E t \in Tasks : PersistFail(t)

AsyncSpec == AsyncInit /\ [][AsyncNext]_vars

\* as CancelWaiting, but the synchronous absorb is made before the
\* cancellation is raised
CancelWaiting_AfterAbsorb(t) ==
    /\ pc[t] = "waiting"
    /\ waiters' = SelectSeq(waiters, LAMBDA u : u # t)
    /\ pc' = [pc EXCEPT ![t] = "cancelled"]
    /\ SetLex(WrapCall(op[t], Lex).l)
    /\ UNCHANGED <<calls, decays, ret, locked, db_path, scope, db_conn, db_words,
                   db_trigrams, db_pending, op, tret, ppos, order, waited, twin>>

\* The task is cancelled while suspended in acquire(): CancelledError is
\* raised at "await fut", acquire() removes the waiter and the with block is
\* never entered.
CancelWaiting(t) ==
    /\ pc[t] = "waiting"
    /\ waiters' = SelectSeq(waiters, LAMBDA u : u # t)
    /\ pc' = [pc EXCEPT ![t] = "cancelled"]
    /\ UNCHANGED <<lexvars, calls, decays, ret, locked, db_path, scope, db_conn,
                   db_words, db_trigrams, db_pending, op, tret, ppos, order, waited, twin>>

\* The task is cancelled while suspended in an await of _persist_record:
\* as CancelPersist, but the lock stays held
CancelPersist_KeepsLock(t) ==
    /\ pc[t] = "persist"
    /\ pc' = [pc EXCEPT ![t] = "cancelled"]
    /\ UNCHANGED <<lexvars, calls, decays, ret, locked, waiters, db_path, scope,
                   db_conn, db_words, db_trigrams, db_pending, op, tret, ppos,
                   order, waited, twin>>

\* CancelledError leaves the with block, which releases the lock.  What was
\* executed stays on the connection, uncommitted.
CancelPersist(t) ==
    /\ pc[t] = "persist"
    /\ pc' = [pc EXCEPT ![t] = "cancelled"]
    /\ locked' = FALSE
    /\ UNCHANGED <<lexvars, calls, decays, ret, waiters, db_path, scope, db_conn,
                   db_words, db_trigrams, db_pending, op, tret, ppos, order, waited, twin>>

\* concurrent absorb calls, any of which may be cancelled
CancelNext ==
    \/ AEnter
    \/ \E t \in Tasks, o \in AbsorbOps : Call(t, o)
    \/ \E t \in Tasks : Wake(t)
    \/ \E t \in Tasks : Body(t)
    \/ \E t \in Tasks : PersistStep(t)
    \/ \E t \in Tasks : CancelWaiting(t)
    \/ \E t \in Tasks : CancelPersist(t)

CancelSpec == AsyncInit /\ [][CancelNext]_vars

\* One call of each wrapper method per task, any of which may be cancelled.
\* The event loop runs every task that is ready: a woken waiter resumes, the
\* synchronous body of a with block runs to its first await, and an await
\* of _persist_record returns or raises.  Nothing obliges a cancellation.
LiveOps ==
    {[name |-> "absorb", text |-> TextB, source |-> DefaultSource,
      boost |-> DefaultBoost],
     [name |-> "decay"], [name |-> "get_resonant_words", n |-> ResonantN],
     [name |-> "stats"]}

LiveNext ==
    \/ AEnter
    \/ \E t \in Tasks, o \in LiveOps : Call(t, o)
    \/ \E t \in Tasks : Wake(t)
    \/ \E t \in Tasks : Body(t)
    \/ \E t \in Tasks : PersistStep(t)
    \/ \E t \in Tasks : PersistFail(t)
    \/ \E t \in Tasks : CancelWaiting(t)
    \/ \E t \in Tasks : CancelPersist(t)

\* The wrapper used as a context manager: calls are made once the
\* "async with" has been entered, with or without a db_path, and may go on
\* after it is left.  Absorptions are at boost 0.05, whose new words the
\* next decay removes; persistence can fail or be cancelled.
DurableTexts == {TextA, TextE}
DurableOps ==
    {[name |-> "absorb", text |-> text, source |-> DefaultSource,
      boost |-> Scale \div 20] : text \in DurableTexts} \cup {[name |-> "decay"]}

DurableNext ==
    \/ AEnter
    \/ AExit
    \/ /\ scope # "out"
       /\ \E t \in Tasks, o \in DurableOps : Call(t, o)
    \/ \E t \in Tasks : Wake(t)
    \/ \E t \in Tasks : Body(t)
    \/ \E t \in Tasks : PersistStep(t)
    \/ \E t \in Tasks : PersistFail(t)
    \/ \E t \in Tasks : CancelPersist(t)

DurableSpec == AsyncInit /\ [][DurableNext]_vars

\* Body(t) can take a step exactly when pc[t] = "locked", so its weak
\* fairness WF_vars(Body(t)) is written out with that condition.
LiveSpec ==
    /\ AsyncInit
    /\ [][LiveNext]_vars
    /\ \A t \in Tasks :
          /\ WF_vars(Wake(t))
          /\ ([]<>(pc[t] # "locked") \/ []<><<Body(t)>>_vars)
          /\ WF_vars(PersistStep(t) \/ PersistFail(t))

\* ---------------------------------------------------------------- model sanity
\* every weight the next decay multiplies is divisible by the denominator,
\* so Decayed is the exact product
DecayExact ==
    decays < MaxDecays =>
        \A i \in 1..Len(word_weights) : word_weights[i][2] % decay_rate[2] = 0

\* in RepeatSpec a weight that decay keeps is an exact product as well: a
\* weight that is not divisible by the denominator is one that decay removes
RepeatExact ==
    \A i \in 1..Len(word_weights) :
        \/ word_weights[i][2] % decay_rate[2] = 0
        \/ Decayed(word_weights[i][2], decay_rate) < RemoveThreshold

\* ------------------------------------------------------------------- claims
Weight(word) == WeightGet(word_weights, word, DefaultWeight)
Occurrences(seq, x) == Cardinality({i \in 1..Len(seq) : seq[i] = x})
SeqToSet(seq) == {seq[i] : i \in 1..Len(seq)}

\* the tasks whose call has made its synchronous call on the Lexicon
HasRun(t) == pc[t] \in {"persist", "done", "failed"}
InCS(t) == pc[t] \in {"locked", "persist"}

\* C1: under any interleaving of concurrent AsyncLexicon.absorb calls, a
\* trigram is injected by exactly one of the calls whose text contains it:
\* _inject_trigram has been invoked once for it, and one record lists it.
C1_OneInjectionPerTrigram ==
    \A tri \in absorbed_trigrams \cup DOMAIN inject_calls :
        /\ CountOf(inject_calls, tri) = 1
        /\ Cardinality({t \in Tasks : /\ HasRun(t) /\ op[t].name = "absorb"
                                      /\ tri \in SeqToSet(tret[t].value.trigrams)}) = 1

\* two absorbs of different texts that share a trigram, the second one
\* suspended behind the first, have both returned
C1_Witness ==
    \E t, u \in Tasks :
        /\ t # u /\ pc[t] = "done" /\ pc[u] = "done" /\ u \in waited
        /\ op[t].name = "absorb" /\ op[u].name = "absorb"
        /\ op[t].text # op[u].text
        /\ SeqToSet(ExtractTrigrams(op[t].text))
              \cap SeqToSet(ExtractTrigrams(op[u].text)) # {}

\* at most one task is inside a critical section, and the lock is held
\* exactly while one is
C2_Mutex ==
    /\ Cardinality({t \in Tasks : InCS(t)}) <= 1
    /\ locked <=> \E t \in Tasks : InCS(t)

\* the Lexicon, the records, the results and the written rows change only
\* in a step of the one task that is inside its critical section
C2_AccessUnderLock ==
    (Lex' # Lex \/ tret' # tret \/ db_pending' # db_pending) =>
        /\ locked
        /\ \E t \in Tasks :
              /\ InCS(t)
              /\ pc'[t] # pc[t] \/ ppos'[t] # ppos[t]
              /\ \A u \in Tasks \ {t} : pc'[u] = pc[u] /\ tret'[u] = tret[u]

\* C2: at most one of absorb, decay, get_resonant_words, stats is inside
\* its critical section in any state, and each holds the lock from before
\* its first access to the Lexicon until after its last, absorb through the
\* whole of its persistence phase.
C2_MutualExclusion == []C2_Mutex /\ [][C2_AccessUnderLock]_vars

\* an absorb is suspended in its persistence phase while a decay waits
C2_Witness ==
    \E t, u \in Tasks :
        /\ pc[t] = "persist" /\ ppos[t] >= 1
        /\ pc[u] = "waiting" /\ op[u].name = "decay"

\* a call made directly on a plain Lexicon
SerialCall(o, l) ==
    CASE o.name = "absorb" -> LexAbsorb(l, o.text, o.source, o.boost)
      [] o.name = "decay" -> LexDecay(l)
      [] o.name = "get_resonant_words" -> [l |-> l, ret |-> LexResonant(l, o.n)]
      [] o.name = "stats" -> [l |-> l, ret |-> LexStats(l)]

RECURSIVE Replay(_, _, _)
Replay(seq, i, acc) ==
    IF i > Len(seq) THEN acc
    ELSE LET r == SerialCall(op[seq[i]], acc.l)
         IN  Replay(seq, i + 1,
                    [l |-> r.l,
                     rets |-> [acc.rets EXCEPT ![seq[i]] =
                                  [op |-> op[seq[i]].name, value |-> r.ret]]])

Serial ==
    Replay(SelectSeq(order, HasRun), 1,
           [l |-> NewLexicon(decay_rate, CorpusBigrams),
            rets |-> [t \in Tasks |-> [op |-> "none"]]])

\* C3: in every state the Lexicon, the field and every value returned are
\* those of running the same calls one after another on a plain Lexicon, in
\* the order in which the lock was acquired.
C3_SerialEquivalence ==
    LET serial == Serial
    IN  /\ Lex = serial.l
        /\ \A t \in Tasks : HasRun(t) => tret[t] = serial.rets[t]

\* every task has returned, one of them after waiting for an absorb that
\* was persisting, and a later call saw the effect of an earlier absorb
C3_Witness ==
    /\ \A t \in Tasks : pc[t] = "done"
    /\ waited # {}
    /\ db_conn = "open"
    /\ \E t, u \in Tasks :
          /\ t # u /\ op[t].name = "absorb" /\ op[u].name = "absorb"
          /\ op[t].text = op[u].text /\ tret[u].value.words = <<>>

\* C4: every weight stored in word_weights lies in (0, 2.0], after any
\* sequence of absorb(text, source, boost) and decay calls.
C4_WeightsInRange ==
    \A i \in 1..Len(word_weights) :
        word_weights[i][2] > 0 /\ word_weights[i][2] <= WeightCap

\* C5: the keys of word_weights are exactly the absorbed words, one entry each.
C5_KeysAreAbsorbedWords ==
    /\ Keys(word_weights) = absorbed_words
    /\ Len(word_weights) = Cardinality(absorbed_words)

\* a decay has removed a word while another word stays tracked
C5_Witness ==
    /\ ret.op = "decay" /\ ret.value > 0
    /\ absorbed_words # {}
    /\ calls > 0

\* C6: no word whose weight is below the removal threshold 0.1 is in
\* absorbed_words.
C6_NoWordBelowThreshold ==
    \A word \in absorbed_words : Weight(word) >= RemoveThreshold

\* one injection attempt for a trigram in absorbed_trigrams, none otherwise
C7_InjectOnce ==
    /\ DOMAIN inject_calls = absorbed_trigrams
    /\ \A tri \in absorbed_trigrams : inject_calls[tri] = 1

\* an absorb lists exactly the trigrams of its text that were not absorbed,
\* each once, makes no attempt for an absorbed one, and with no new trigram
\* leaves the store as it was
C7_AbsorbedNotReinjected ==
    calls' = calls + 1 =>
        LET seen == SeqToSet(ExtractTrigrams(ret'.text))
            listed == ret'.value.trigrams
        IN  /\ SeqToSet(listed) = seen \ absorbed_trigrams
            /\ \A tri \in SeqToSet(listed) : Occurrences(listed, tri) = 1
            /\ \A tri \in absorbed_trigrams :
                  CountOf(inject_calls', tri) = CountOf(inject_calls, tri)
            /\ seen \subseteq absorbed_trigrams =>
                  /\ bigram_counts' = bigram_counts
                  /\ trigram_counts' = trigram_counts
                  /\ inject_calls' = inject_calls

\* C7: a trigram has had exactly one injection attempt if it is in
\* absorbed_trigrams and none otherwise, also when it is repeated inside one
\* text; absorbing an absorbed trigram injects nothing, changes no store
\* count and does not list it in the returned record.
C7_IdempotentTrigrams == []C7_InjectOnce /\ [][C7_AbsorbedNotReinjected]_vars

\* the same text absorbed a second time: its trigrams are all known
C7_Witness ==
    /\ calls = 2 /\ ret.op = "absorb"
    /\ ExtractTrigrams(ret.text) # <<>>
    /\ ret.value.trigrams = <<>>
    /\ \E tri \in absorbed_trigrams : Occurrences(ExtractTrigrams(ret.text), tri) = 2

\* the history holds the records of the last min(k, 100) of the k calls
\* made, in call order (a record's timestamp is the number of its call)
C8_LastCalls ==
    /\ Len(history) <= HistoryLimit
    /\ Len(history) = (IF now < HistoryLimit THEN now ELSE HistoryLimit)
    /\ \A i \in 1..Len(history) :
          history[i].timestamp = now - Len(history) + i - 1

\* an absorb puts its one record at the end, dropping the oldest when full
C8_AppendsOne ==
    calls' = calls + 1 =>
        /\ history'[Len(history')] = ret'.value
        /\ history' = IF Len(history) < HistoryLimit
                      THEN Append(history, ret'.value)
                      ELSE Append(Tail(history), ret'.value)

\* C8: the history never holds more than 100 records; every absorb appends
\* exactly one record at the end; after more than 100 calls the history
\* holds exactly the records of the last 100 calls, in call order.
C8_HistoryBound == []C8_LastCalls /\ [][C8_AppendsOne]_vars

\* 102 calls made: the records of calls 0 and 1 are gone
C8_Witness ==
    /\ calls = HistoryLimit + 2
    /\ Len(history) = HistoryLimit
    /\ history[1].timestamp = 2
    /\ history[HistoryLimit].timestamp = HistoryLimit + 1

\* an absorb that reinforces a tracked word does not lower its weight, does
\* not leave it above 2.0, and leaves a weight of 2.0 at 2.0
C9_Reinforced ==
    calls' = calls + 1 =>
        \A word \in absorbed_words \cap SeqToSet(ExtractWords(ret'.text)) :
            LET before == Weight(word)
                after == WeightGet(word_weights', word, DefaultWeight)
            IN  /\ after >= before
                /\ after <= WeightCap
                /\ before = WeightCap => after = WeightCap

\* C9: a reinforcement of a tracked word never lowers its weight and never
\* leaves it above 2.0; a weight that has reached 2.0 stays there.
C9_WeightCapMonotone == [][C9_Reinforced]_vars

\* k times w := min(2.0, w + 0.1)
RECURSIVE StepsUp(_, _)
StepsUp(w, k) ==
    IF k = 0 THEN w
    ELSE StepsUp(IF w + ReinforceStep > WeightCap THEN WeightCap
                 ELSE w + ReinforceStep, k - 1)

C10_AbsorbWeights ==
    calls' = calls + 1 =>
        LET words == ExtractWords(ret'.text)
        IN  \A word \in SeqToSet(words) :
                /\ word \in absorbed_words'
                /\ WeightGet(word_weights', word, 0) =
                      IF word \in absorbed_words
                      THEN StepsUp(Weight(word), Occurrences(words, word))
                      ELSE StepsUp(ret'.boost, Occurrences(words, word) - 1)

\* C10: after absorb(text, source, boost), a word of the text that was not
\* tracked is tracked with weight boost raised by one capped step of 0.1 for
\* each further occurrence in the text; a word that was tracked has its old
\* weight raised by one capped step of 0.1 per occurrence, whatever boost is.
C10_WordRule == [][C10_AbsorbWeights]_vars

\* "Abc, abc abc abc" at the default boost: 1.0, 1.1, 1.2, 1.3
C10_Witness ==
    /\ calls = 1 /\ ret.op = "absorb"
    /\ ret.text = TextA /\ ret.boost = DefaultBoost
    /\ word_weights = <<<<<<"a", "b", "c">>, (13 * Scale) \div 10>>>>

\* the elements of seq that are not in known, each once, in the order of
\* their first occurrence in seq
FirstNew(seq, known) ==
    LET idx == {i \in 1..Len(seq) :
                   /\ seq[i] \notin known
                   /\ \A j \in 1..(i - 1) : seq[j] # seq[i]}
    IN  [k \in 1..Cardinality(idx) |->
            seq[CHOOSE i \in idx : Cardinality({j \in idx : j <= i}) = k]]

C11_RecordListsNew ==
    calls' = calls + 1 =>
        LET record == ret'.value
        IN  /\ record.words = FirstNew(ExtractWords(ret'.text), absorbed_words)
            /\ record.trigrams =
                  FirstNew(ExtractTrigrams(ret'.text), absorbed_trigrams)
            /\ SeqToSet(record.words) \cap absorbed_words = {}
            /\ SeqToSet(record.trigrams) \cap absorbed_trigrams = {}
            /\ \A w \in SeqToSet(record.words) : Occurrences(record.words, w) = 1
            /\ \A tri \in SeqToSet(record.trigrams) :
                  Occurrences(record.trigrams, tri) = 1
            /\ history'[Len(history')] = record

\* C11: the record returned by absorb, which is the record appended to the
\* history, lists exactly the words and the trigrams of the text that were
\* not absorbed before the call, each once, in the order of their first
\* occurrence; its lists are duplicate-free and disjoint from the sets as
\* they were before the call.
C11_RecordExactlyNew == [][C11_RecordListsNew]_vars

\* "bca abc abc abc de" after "Abc, abc abc abc": the repeated, reinforced
\* abc and the known trigram are left out, the two new trigrams are listed
\* in text order
C11_Witness ==
    /\ calls = 2 /\ ret.op = "absorb" /\ ret.text = TextB
    /\ history[1].words = <<<<"a", "b", "c">>>>
    /\ ret.value.words = <<<<"b", "c", "a">>>>
    /\ ret.value.trigrams =
          <<<<<<"b", "c", "a">>, <<"a", "b", "c">>, <<"a", "b", "c">>>>,
            <<<<"a", "b", "c">>, <<"a", "b", "c">>, <<"d", "e">>>>>>

\* the text is empty, or has fewer than three runs of word characters and
\* none of min_word_length characters
ShortText(text) ==
    LET runs == FindAllWords(text)
    IN  /\ Len(runs) < 3
        /\ \A i \in 1..Len(runs) : Len(runs[i]) < min_word_length

C12_ShortAbsorb ==
    (calls' = calls + 1 /\ ShortText(ret'.text)) =>
        /\ ret'.value.words = <<>>
        /\ ret'.value.trigrams = <<>>
        /\ absorbed_words' = absorbed_words
        /\ word_weights' = word_weights
        /\ absorbed_trigrams' = absorbed_trigrams
        /\ bigram_counts' = bigram_counts
        /\ trigram_counts' = trigram_counts
        /\ history' = IF Len(history) < HistoryLimit
                      THEN Append(history, ret'.value)
                      ELSE Append(Tail(history), ret'.value)

\* C12: absorb of the empty text, or of a text with no word of
\* min_word_length characters and fewer than three runs, returns a record
\* with empty words and trigrams; absorbed_words, word_weights,
\* absorbed_trigrams and the store are unchanged and the history gains that
\* empty record.
C12_ShortTextNoEffect == [][C12_ShortAbsorb]_vars

\* the empty text absorbed by a lexicon that tracks words and trigrams
C12_Witness ==
    /\ calls = 2 /\ ret.op = "absorb" /\ ret.text = TextEmpty
    /\ RecordCount(ret.value) = 0
    /\ Len(history) = 2 /\ history[2] = ret.value
    /\ history[1].words # <<>> /\ history[1].trigrams # <<>>
    /\ absorbed_words # {}

\* all three words of the trigram encode to a non-empty token sequence
Encodable(tri) == \A i \in 1..3 : Encode(tri[i]) # <<>>
FirstOf(word) == Encode(word)[1]
LastOf(word) == Encode(word)[Len(Encode(word))]
\* the keys an injection of an encodable trigram raises
Pair1(tri) == <<LastOf(tri[1]), FirstOf(tri[2])>>
Pair2(tri) == <<LastOf(tri[2]), FirstOf(tri[3])>>
Triple(tri) == <<Pair1(tri), LastOf(tri[2])>>
PairHits(k, tris) ==
    Cardinality({tri \in tris : Pair1(tri) = k})
        + Cardinality({tri \in tris : Pair2(tri) = k})
TripleHits(k, tris) == Cardinality({tri \in tris : Triple(tri) = k})

\* the trigrams of text that are not absorbed yet: the ones absorb injects
NewTrigrams(text) == SeqToSet(ExtractTrigrams(text)) \ absorbed_trigrams

\* the store after the step is the store before it with the increments of
\* the trigrams in tris, at int(weight) each, and nothing else
StoreRaisedBy(tris, weight) ==
    /\ DOMAIN bigram_counts' =
          DOMAIN bigram_counts \cup {Pair1(tri) : tri \in tris}
                               \cup {Pair2(tri) : tri \in tris}
    /\ DOMAIN trigram_counts' =
          DOMAIN trigram_counts \cup {Triple(tri) : tri \in tris}
    /\ \A k \in DOMAIN bigram_counts' :
          bigram_counts'[k] =
              CountOf(bigram_counts, k) + IntOf(weight) * PairHits(k, tris)
    /\ \A k \in DOMAIN trigram_counts' :
          trigram_counts'[k] =
              CountOf(trigram_counts, k) + IntOf(weight) * TripleHits(k, tris)

C13_AbortedInjection ==
    calls' = calls + 1 =>
        LET new == NewTrigrams(ret'.text)
            enc == {tri \in new : Encodable(tri)}
        IN  new # enc =>
                /\ StoreRaisedBy(enc, ret'.boost)
                /\ enc = {} => /\ bigram_counts' = bigram_counts
                               /\ trigram_counts' = trigram_counts

\* C13: when a word of a trigram encodes to the empty sequence, its
\* injection leaves every pair count and every triple count as it was,
\* keys included: after an absorb that injects such a trigram the store
\* differs from the store before only by the complete injections of the
\* other new trigrams, and not at all when there are none.
C13_AllOrNothing == [][C13_AbortedInjection]_vars

\* "abc abc de x" absorbed first, at boost 1.0: (abc, abc, de) is injected
\* in full, (abc, de, x) not at all
C13_Witness ==
    /\ calls = 1 /\ ret.op = "absorb" /\ ret.text = TextE
    /\ ret.boost = DefaultBoost
    /\ Len(ret.value.trigrams) = 2
    /\ DOMAIN bigram_counts = {<<2, 0>>, <<2, 3>>}
    /\ bigram_counts[<<2, 0>>] = 6 /\ bigram_counts[<<2, 3>>] = 1
    /\ DOMAIN trigram_counts = {<<<<2, 0>>, 2>>}

\* a trigram with a word that does not encode, once absorbed, has had its
\* one injection attempt
C14_OneAttempt ==
    \A tri \in absorbed_trigrams :
        ~Encodable(tri) => CountOf(inject_calls, tri) = 1

C14_UnencodableAbsorbed ==
    calls' = calls + 1 =>
        LET seen == SeqToSet(ExtractTrigrams(ret'.text))
            listed == ret'.value.trigrams
        IN  /\ \A tri \in seen \ absorbed_trigrams :
                  ~Encodable(tri) =>
                      /\ tri \in absorbed_trigrams'
                      /\ Occurrences(listed, tri) = 1
                      /\ CountOf(inject_calls', tri) = 1
            /\ \A tri \in absorbed_trigrams :
                  ~Encodable(tri) =>
                      /\ tri \in absorbed_trigrams'
                      /\ Occurrences(listed, tri) = 0
                      /\ CountOf(inject_calls', tri) = 1
            /\ (\A tri \in seen \ absorbed_trigrams : ~Encodable(tri)) =>
                  /\ bigram_counts' = bigram_counts
                  /\ trigram_counts' = trigram_counts

\* C14: an unseen trigram with a word that does not encode is added to
\* absorbed_trigrams and listed once in the returned record although its
\* injection changes nothing in the store; a later absorb of a text that
\* contains it neither lists it nor attempts its injection again.
C14_UnencodableStillAbsorbed ==
    []C14_OneAttempt /\ [][C14_UnencodableAbsorbed]_vars

\* "abc abc de x" absorbed twice: the first call listed (abc, de, x), the
\* second lists nothing and the trigram has still one attempt
C14_Witness ==
    /\ calls = 2 /\ ret.op = "absorb" /\ ret.text = TextE
    /\ ret.value.trigrams = <<>>
    /\ Len(history) = 2
    /\ Occurrences(history[1].trigrams,
                   <<<<"a", "b", "c">>, <<"d", "e">>, <<"x">>>>) = 1
    /\ <<<<"a", "b", "c">>, <<"d", "e">>, <<"x">>>> \in absorbed_trigrams
    /\ inject_calls[<<<<"a", "b", "c">>, <<"d", "e">>, <<"x">>>>] = 1

C15_FullInjection ==
    calls' = calls + 1 =>
        LET new == NewTrigrams(ret'.text)
        IN  (new # {} /\ \A tri \in new : Encodable(tri)) =>
                StoreRaisedBy(new, ret'.boost)

\* C15: the injection of a trigram whose three words encode adds
\* int(weight) to the pair count (last(w1), first(w2)), to the pair count
\* (last(w2), first(w3)) and to the triple count of key (last(w1),
\* first(w2)) and outcome last(w2), twice to a pair that is both, and
\* changes no other count: after an absorb whose new trigrams all encode,
\* every count is its old value plus int(boost) for each such increment.
C15_InjectionAmounts == [][C15_FullInjection]_vars

\* "bca abc abc abc de" absorbed first, at boost 2.5: int(2.5) = 2 is added
\* once to (a, a) and (c, d) and four times to (c, a), which (abc, abc,
\* abc) raises twice
C15_Witness ==
    /\ calls = 1 /\ ret.op = "absorb" /\ ret.text = TextB
    /\ ret.boost = (5 * Scale) \div 2
    /\ DOMAIN bigram_counts = {<<0, 0>>, <<2, 0>>, <<2, 3>>}
    /\ bigram_counts[<<0, 0>>] = 2
    /\ bigram_counts[<<2, 0>>] = 13
    /\ bigram_counts[<<2, 3>>] = 2
    /\ DOMAIN trigram_counts = {<<<<0, 0>>, 2>>, <<<<2, 0>>, 2>>}
    /\ trigram_counts[<<<<0, 0>>, 2>>] = 2
    /\ trigram_counts[<<<<2, 0>>, 2>>] = 4

C16_CountsNotLowered ==
    /\ \A k \in DOMAIN bigram_counts :
          CountOf(bigram_counts', k) >= bigram_counts[k]
    /\ \A k \in DOMAIN trigram_counts :
          CountOf(trigram_counts', k) >= trigram_counts[k]

\* C16: no pair count and no triple count of the store is lower after an
\* absorb(text, source, boost) or a decay than it was before.
C16_StrictlyAdditive == [][C16_CountsNotLowered]_vars

C17_ZeroMagnitude ==
    calls' = calls + 1 =>
        LET new == NewTrigrams(ret'.text)
            listed == ret'.value.trigrams
        IN  /\ (0 < ret'.boost /\ ret'.boost < Scale) =>
                  /\ \A k \in DOMAIN bigram_counts' :
                        bigram_counts'[k] = CountOf(bigram_counts, k)
                  /\ \A k \in DOMAIN trigram_counts' :
                        trigram_counts'[k] = CountOf(trigram_counts, k)
                  /\ new \subseteq absorbed_trigrams'
                  /\ SeqToSet(listed) = new
            /\ ret'.boost >= Scale =>
                  /\ StoreRaisedBy({tri \in new : Encodable(tri)}, ret'.boost)
                  /\ \A tri \in absorbed_trigrams :
                        /\ CountOf(inject_calls', tri) = CountOf(inject_calls, tri)
                        /\ tri \notin SeqToSet(listed)

\* C17: an absorb with a boost strictly between 0 and 1 leaves every count
\* of the store at its value while each new trigram of the text is added
\* to absorbed_trigrams and listed in the record; an absorb with a boost of
\* at least 1 makes no injection for a trigram that is already absorbed,
\* so such a trigram never reaches the store.
C17_FractionalBoostLost == [][C17_ZeroMagnitude]_vars

\* "bca abc abc abc de" at boost 0.2, then again at boost 2.5: three
\* trigrams absorbed, and the store counts what the corpus gave it
C17_Witness ==
    /\ calls = 2 /\ ret.op = "absorb" /\ ret.text = TextB
    /\ ret.boost = (5 * Scale) \div 2
    /\ ret.value.trigrams = <<>>
    /\ Len(history) = 2 /\ Len(history[1].trigrams) = 3
    /\ Cardinality(absorbed_trigrams) = 3
    /\ bigram_counts[<<2, 0>>] = 5
    /\ bigram_counts[<<0, 0>>] = 0 /\ bigram_counts[<<2, 3>>] = 0
    /\ \A k \in DOMAIN trigram_counts : trigram_counts[k] = 0

C18_DecayStep ==
    decays' = decays + 1 =>
        /\ \A i \in 1..Len(word_weights) :
              LET word == word_weights[i][1]
                  new_weight == Decayed(word_weights[i][2], decay_rate)
              IN  IF new_weight < RemoveThreshold
                  THEN /\ word \notin Keys(word_weights')
                       /\ word \notin absorbed_words'
                  ELSE /\ word \in Keys(word_weights')
                       /\ WeightGet(word_weights', word, 0) = new_weight
                       /\ word \in absorbed_words'
        /\ Keys(word_weights') \subseteq Keys(word_weights)
        /\ absorbed_words' \subseteq absorbed_words
        /\ Len(word_weights') = Cardinality(Keys(word_weights'))
        /\ ret'.value = Cardinality(absorbed_words) - Cardinality(absorbed_words')
        /\ ret'.value = Len(word_weights) - Len(word_weights')

\* C18: decay replaces every tracked weight w by w * decay_rate, removes
\* from word_weights and from absorbed_words exactly the words whose new
\* weight is strictly below 0.1, a new weight of 0.1 staying, and returns
\* the number of words removed, the size of absorbed_words before less its
\* size after.
C18_DecayRule == [][C18_DecayStep]_vars

\* "bca abc abc abc de" at boost 0.2 and decay_rate 0.5: bca 0.2, abc 0.4;
\* the first decay leaves bca at 0.1, the second removes it at 0.05 and
\* leaves abc at 0.1
C18_Witness ==
    /\ ret.op = "decay" /\ ret.value = 1 /\ decays = 2
    /\ decay_rate = <<1, 2>>
    /\ Len(history) = 1
    /\ history[1].words = <<<<"b", "c", "a">>, <<"a", "b", "c">>>>
    /\ word_weights = <<<<<<"a", "b", "c">>, RemoveThreshold>>>>
    /\ absorbed_words = {<<"a", "b", "c">>}

C19_DecayFrame ==
    decays' = decays + 1 =>
        /\ absorbed_trigrams' = absorbed_trigrams
        /\ bigram_counts' = bigram_counts
        /\ trigram_counts' = trigram_counts
        /\ history' = history

\* C19: decay leaves absorbed_trigrams, every count of the store and the
\* history as they were; it changes word_weights and absorbed_words only.
C19_DecayLeavesTrigrams == [][C19_DecayFrame]_vars

\* a decay has removed a word whose trigram stays absorbed and counted
C19_Witness ==
    /\ ret.op = "decay" /\ ret.value > 0
    /\ history # <<>>
    /\ \E k \in DOMAIN trigram_counts : trigram_counts[k] > 0
    /\ \E tri \in absorbed_trigrams :
          \E i \in 1..3 : Len(tri[i]) >= min_word_length
                           /\ tri[i] \notin absorbed_words

RepeatWords == UNION {SeqToSet(ExtractWords(text)) : text \in RepeatTexts}
Tracked(word) == word \in absorbed_words \/ word \in Keys(word_weights)
\* the word was absorbed by an earlier call and is not tracked now
Forgotten(word) ==
    /\ ~Tracked(word)
    /\ \E i \in 1..Len(history) : word \in SeqToSet(history[i].words)

\* an absorb of a text with a forgotten word reports the word as new and
\* gives it the weight an unseen word gets from this call's boost
C20_Rebirth ==
    calls' = calls + 1 =>
        LET words == ExtractWords(ret'.text)
        IN  \A word \in SeqToSet(words) :
                Forgotten(word) =>
                    /\ Occurrences(ret'.value.words, word) = 1
                    /\ word \in absorbed_words'
                    /\ WeightGet(word_weights', word, 0) =
                          StepsUp(ret'.boost, Occurrences(words, word) - 1)

C21_TrigramsOnlyGrow == [][absorbed_trigrams \subseteq absorbed_trigrams']_vars

\* a word has decayed away and a query has run: its trigrams remain
C21_Witness ==
    /\ ret.op = "stats" /\ decays > 0 /\ calls = MaxCalls
    /\ Cardinality(absorbed_trigrams) >= 3
    /\ \E tri \in absorbed_trigrams :
          \E i \in 1..3 : Len(tri[i]) >= min_word_length
                           /\ tri[i] \notin absorbed_words

\* the durable store and what is written on its connection
Durable == <<db_words, db_trigrams, db_pending>>

\* a task cancelled before it got the lock has no record and never held
\* the lock
C24_NeverRan ==
    \A t \in Tasks :
        (pc[t] = "cancelled" /\ tret[t].op = "none") =>
            \A i \in 1..Len(order) : order[i] # t

C24_CancelStep ==
    \A t \in Tasks :
        /\ (pc[t] = "waiting" /\ pc'[t] = "cancelled") =>
              /\ Lex' = Lex
              /\ Durable' = Durable
              /\ tret'[t] = tret[t] /\ tret[t].op = "none"
              /\ locked' = locked
        /\ (pc[t] = "persist" /\ pc'[t] = "cancelled") =>
              /\ Lex' = Lex
              /\ Durable' = Durable
              /\ history[Len(history)] = tret[t].value
              /\ SeqToSet(tret[t].value.words) \subseteq absorbed_words
              /\ SeqToSet(tret[t].value.trigrams) \subseteq absorbed_trigrams
              /\ ~locked'

\* C24: an absorb cancelled while it waits for the lock changes nothing in
\* the Lexicon, the store, the history or the durable store, and never
\* runs; an absorb cancelled in its persistence phase keeps its in-memory
\* effects, which can leave a word or trigram absorbed in memory and absent
\* from the durable store.
C24_Cancellation == []C24_NeverRan /\ [][C24_CancelStep]_vars

\* one absorb was cancelled while persisting, another while waiting behind
\* it: the words of the first are absorbed, the durable store has no row
C24_Witness ==
    \E t, u \in Tasks :
        /\ pc[t] = "cancelled" /\ tret[t].op = "absorb"
        /\ pc[u] = "cancelled" /\ tret[u].op = "none" /\ u \in waited
        /\ db_conn = "open"
        /\ \E word \in absorbed_words : word \notin DOMAIN db_words
        /\ \E tri \in absorbed_trigrams : tri \notin DOMAIN db_trigrams
        /\ ~locked

\* while an absorb is in its persistence phase it holds the lock and no
\* other task is inside its critical section
C22_PersistsUnderLock ==
    \A t \in Tasks :
        pc[t] = "persist" =>
            /\ locked
            /\ \A u \in Tasks \ {t} : ~InCS(u)

C22_PersistStep ==
    \A t \in Tasks :
        \* with a connection, an absorb that found something new keeps the
        \* lock and starts to persist
        /\ ( /\ pc[t] = "locked" /\ pc'[t] # "locked"
             /\ op[t].name = "absorb" /\ db_conn # "none"
             /\ RecordCount(tret'[t].value) > 0 ) =>
                pc'[t] = "persist" /\ locked'
        \* until it has finished, nothing but its own writes happens
        /\ pc[t] = "persist" =>
              /\ Lex' = Lex
              /\ \A u \in Tasks \ {t} : tret'[u] = tret[u] /\ ~InCS(u)'
              /\ ~locked' => pc'[t] \in {"done", "failed"}
        \* when it returns, every new word and trigram is committed
        /\ (pc[t] = "persist" /\ pc'[t] = "done") =>
              LET record == tret[t].value
              IN  /\ \A word \in SeqToSet(record.words) :
                        /\ word \in DOMAIN db_words'
                        /\ db_words'[word] = [weight |-> Weight(word),
                                              source |-> record.source,
                                              timestamp |-> record.timestamp]
                  /\ \A tri \in SeqToSet(record.trigrams) :
                        /\ tri \in DOMAIN db_trigrams'
                        /\ db_trigrams'[tri] = [source |-> record.source,
                                                timestamp |-> record.timestamp]
                  /\ db_pending' = NoRows
                  /\ locked /\ ~locked'

\* C22: with a connection, an absorb whose record has count > 0 writes a
\* row for every new word and trigram of the record and commits before it
\* releases the lock; from its synchronous absorb to the end of that write
\* it holds the lock, and no other operation of the wrapper runs.
C22_PersistedBeforeRelease == []C22_PersistsUnderLock /\ [][C22_PersistStep]_vars

\* an absorb has persisted its record and returned, and the task that
\* waited behind it has returned after it
C22_Witness ==
    \E t, u \in Tasks :
        /\ pc[t] = "done" /\ ppos[t] > 0 /\ op[t].name = "absorb"
        /\ SeqToSet(tret[t].value.words) \subseteq DOMAIN db_words
        /\ tret[t].value.trigrams # <<>>
        /\ SeqToSet(tret[t].value.trigrams) \subseteq DOMAIN db_trigrams
        /\ u \in waited /\ pc[u] = "done"

C23_FailStep ==
    \A t \in Tasks :
        (pc[t] = "persist" /\ pc'[t] = "failed") =>
            LET record == tret[t].value
            IN  /\ Lex' = Lex
                /\ history[Len(history)] = record
                /\ SeqToSet(record.words) \subseteq absorbed_words
                /\ SeqToSet(record.words) \subseteq Keys(word_weights)
                /\ SeqToSet(record.trigrams) \subseteq absorbed_trigrams
                /\ \A tri \in SeqToSet(record.trigrams) : inject_calls[tri] = 1
                /\ ~locked'
                /\ waiters' = waiters
                /\ waiters # <<>> => pc'[Head(waiters)] = "waiting"

\* a task whose absorb failed is outside the critical section
C23_FailedReleased ==
    \A t \in Tasks : pc[t] = "failed" => (locked => \E u \in Tasks \ {t} : InCS(u))

\* C23: when an await of the persistence write raises, the absorb call
\* ends with that failure, the effects of its synchronous absorb on
\* absorbed_words, word_weights, absorbed_trigrams, the history and the
\* store stay as they are, and the lock is released, so that the first
\* waiter can take it.
C23_FailureKeepsMemory == []C23_FailedReleased /\ [][C23_FailStep]_vars

\* an absorb has failed in its persistence phase; what it absorbed is in
\* memory and not in the durable store, and the task that waited behind it
\* has run and returned
C23_Witness ==
    \E t, u \in Tasks :
        /\ pc[t] = "failed" /\ ppos[t] > 0
        /\ tret[t].value.words # <<>>
        /\ SeqToSet(tret[t].value.words) \subseteq absorbed_words
        /\ \E word \in SeqToSet(tret[t].value.words) : word \notin DOMAIN db_words
        /\ u \in waited /\ pc[u] = "done"
        /\ \E i, j \in 1..Len(order) : i < j /\ order[i] = t /\ order[j] = u

\* the connection goes from none to open and from open to closed only
C25_Moves ==
    db_conn' # db_conn =>
        <<db_conn, db_conn'>> \in {<<"none", "open">>, <<"open", "closed">>}

\* once the with statement is over, by its normal exit, by a failure of its
\* body or by a failure of its entry, no connection is open
C25_ClosedOnExit == scope \in {"left", "entry_failed"} => db_conn # "open"

\* C25: the durable store moves only Unattached -> Attached -> Closed, and
\* a connection opened by the with statement is closed on every path out
\* of it, the failure of the body and the failure of the schema
\* initialisation during entry included.
C25_ScopedLifecycle == []C25_ClosedOnExit /\ [][C25_Moves]_vars

\* C26: without a db_path, or without aiosqlite, no connection is ever
\* opened and no row written or attempted, entering and leaving the with
\* statement succeed, and the Lexicon and every returned value are those of
\* the same calls made one after another on a plain Lexicon, as they are
\* with persistence enabled.
C26_MemoryOnly ==
    ~db_path =>
        /\ db_conn = "none"
        /\ db_words = <<>> /\ db_trigrams = <<>> /\ db_pending = NoRows
        /\ \A t \in Tasks : pc[t] \notin {"persist", "failed"} /\ ppos[t] = 0
        /\ scope \in {"out", "in", "left"}
        /\ LET serial == Serial
           IN  /\ Lex = serial.l
               /\ \A t \in Tasks : pc[t] = "done" => tret[t] = serial.rets[t]

\* no db_path: the with statement was entered and left, every call has
\* returned, and an absorb returned a record that is not empty
C26_Witness ==
    /\ ~db_path /\ scope = "left"
    /\ \A t \in Tasks : pc[t] = "done"
    /\ \E t \in Tasks : /\ op[t].name = "absorb"
                         /\ RecordCount(tret[t].value) > 0

\* C27: in every state in which another task of the event loop can run,
\* the states between the steps of the wrapper, each trigram has either all
\* of its pair and triple increments in the store, when it is absorbed, or
\* none of them: every count is the corpus count plus the complete
\* injections, at int(boost) = 1, of the absorbed trigrams.
C27_NoHalfInjection ==
    LET done == {tri \in absorbed_trigrams : Encodable(tri)}
        pairs == DOMAIN bigram_counts \cup {Pair1(tri) : tri \in done}
                                     \cup {Pair2(tri) : tri \in done}
        triples == DOMAIN trigram_counts \cup {Triple(tri) : tri \in done}
    IN  /\ \A k \in pairs :
              CountOf(bigram_counts, k) =
                  CountOf(CorpusBigrams, k) + IntOf(DefaultBoost) * PairHits(k, done)
        /\ \A k \in triples :
              CountOf(trigram_counts, k) = IntOf(DefaultBoost) * TripleHits(k, done)

\* an absorb is suspended in its persistence phase, after its injections,
\* while another call waits for the lock: a reader that runs now sees the
\* three trigrams of "bca abc abc abc de" injected in full
C27_Witness ==
    /\ \E t, u \in Tasks :
          /\ pc[t] = "persist" /\ ppos[t] >= 1 /\ op[t].text = TextB
          /\ Len(tret[t].value.trigrams) = 3
          /\ pc[u] = "waiting"
    /\ bigram_counts[<<2, 0>>] = 9
    /\ trigram_counts[<<<<2, 0>>, 2>>] = 2
    /\ trigram_counts[<<<<0, 0>>, 2>>] = 1

\* word a goes before word b: greater weight, or equal weight and earlier
\* in word_weights
Before(a, b) ==
    \/ Weight(a) > Weight(b)
    \/ /\ Weight(a) = Weight(b)
       /\ IndexOf(word_weights, a) < IndexOf(word_weights, b)

\* C28: get_resonant_words(n) returns at most n words, the n first if
\* there are as many, all distinct and all in absorbed_words, in
\* non-increasing order of weight, words of equal weight in the order of
\* their current entries in word_weights.
C28_ResonantOrder ==
    ret.op = "get_resonant_words" =>
        LET r == ret.value
        IN  /\ Len(r) = IF ret.n < Len(word_weights) THEN ret.n
                        ELSE Len(word_weights)
            /\ \A i \in 1..Len(r) : r[i] \in absorbed_words
            /\ \A i, j \in 1..Len(r) : i < j => r[i] # r[j] /\ Before(r[i], r[j])
            /\ \A i, j \in 1..Len(r) :
                  i < j => Weight(r[i]) >= Weight(r[j])
            /\ \A word \in Keys(word_weights) \ SeqToSet(r) :
                  \A i \in 1..Len(r) : Before(r[i], word)

\* "bca abc abc abc de" at 0.2, two decays at rate 0.5 that remove bca and
\* leave abc at 0.1, the same text at 0.4: abc is reinforced to 0.4 and bca
\* comes back at 0.4 behind it, and the answer puts abc first
C28_Witness ==
    /\ ret.op = "get_resonant_words" /\ ret.n = 2
    /\ Len(history) = 2
    /\ history[1].words = <<<<"b", "c", "a">>, <<"a", "b", "c">>>>
    /\ history[2].words = <<<<"b", "c", "a">>>>
    /\ word_weights = <<<<<<"a", "b", "c">>, (2 * Scale) \div 5>>,
                        <<<<"b", "c", "a">>, (2 * Scale) \div 5>>>>
    /\ ret.value = <<<<"a", "b", "c">>, <<"b", "c", "a">>>>

\* the number of records the growth rate is taken over: min(10, len(history))
WindowLen == IF Len(history) < GrowthWindow THEN Len(history) ELSE GrowthWindow

\* the sum of count over the last WindowLen records of history
WindowSum ==
    SumCounts(SubSeq(history, Len(history) - WindowLen + 1, Len(history)), 1)

\* the fraction g is the mean of count over the last WindowLen records
IsWindowMean(g) == g[2] > 0 /\ g[1] * WindowLen = WindowSum * g[2]

\* the fraction g is 0.0
IsZero(g) == g[2] > 0 /\ g[1] = 0

\* C29: as stated, in every state with a non-empty history the growth rate
\* that stats() returns is the sum of count over the last
\* min(10, len(history)) records divided by min(10, len(history)).
C29_GrowthRateExact ==
    (ret.op = "stats" /\ Len(history) > 0) => IsWindowMean(ret.value.growth_rate)

\* C29, amended: in every state with at least two history records the
\* growth rate that stats() returns is the sum of count over the last
\* min(10, len(history)) records divided by min(10, len(history)).
C29_GrowthRateExactFromTwo ==
    (ret.op = "stats" /\ Len(history) >= 2) => IsWindowMean(ret.value.growth_rate)

\* twelve records of which only the first two absorbed anything, both now
\* outside the window: the growth rate is 0 / 10, not 5 / 12
C29_Witness ==
    /\ ret.op = "stats"
    /\ Len(history) = StatsMaxCalls
    /\ RecordCount(history[1]) = 2
    /\ RecordCount(history[2]) = 3
    /\ SumCounts(history, 1) = 5
    /\ ret.value.growth_rate = <<0, GrowthWindow>>

\* C30: the growth rate that stats() returns is 0.0 while history holds
\* fewer than 2 records, whatever the single record absorbed, and otherwise
\* the mean of count over the last min(10, len(history)) records.
C30_GrowthRate ==
    ret.op = "stats" =>
        IF Len(history) < 2
        THEN IsZero(ret.value.growth_rate)
        ELSE IsWindowMean(ret.value.growth_rate)

\* a single record that absorbed two words and three trigrams, and a
\* growth rate of 0.0
C30_Witness ==
    /\ ret.op = "stats"
    /\ Len(history) = 1
    /\ RecordCount(history[1]) = 5
    /\ IsZero(ret.value.growth_rate)

\* the source tags of the records in history
HistorySources == {history[i].source : i \in 1..Len(history)}

\* C31, as stated: what stats() returns counts the words, the trigrams and
\* the records of history, and unique_sources is the number of distinct
\* source tags of all the absorb calls made.
C31_SourcesOfAllCalls ==
    ret.op = "stats" =>
        /\ ret.value.total_words = Cardinality(absorbed_words)
        /\ ret.value.total_trigrams = Cardinality(absorbed_trigrams)
        /\ ret.value.recent_absorptions = Len(history)
        /\ ret.value.unique_sources = Cardinality(all_sources)

\* what stats() returns counts the words, the trigrams, the records of
\* history and the source tags of all the records of history
C31_Counts ==
    ret.op = "stats" =>
        /\ ret.value.total_words = Cardinality(absorbed_words)
        /\ ret.value.total_trigrams = Cardinality(absorbed_trigrams)
        /\ ret.value.recent_absorptions = Len(history)
        /\ ret.value.unique_sources = Cardinality(HistorySources)

\* a call of stats() leaves the lexicon, the field and the store as they were
C31_StatsFrame ==
    (ret'.op = "stats" /\ calls' = calls) =>
        UNCHANGED <<lexvars, db_words, db_trigrams, db_pending, db_conn>>

\* C31, amended: stats() changes no lexicon or store state and returns
\* total_words = |absorbed_words|, total_trigrams = |absorbed_trigrams|,
\* recent_absorptions = len(history) and unique_sources = the number of
\* distinct source tags over all the records history holds, which are those
\* of the last 100 absorb calls at most, not only the last 10.
C31_Snapshot == []C31_Counts /\ [][C31_StatsFrame]_vars

\* twelve records, only the first from "self" and so outside the window of
\* the growth rate, one word and one trigram absorbed: two sources counted
C31_Witness ==
    /\ ret.op = "stats"
    /\ Len(history) = GrowthWindow + 2
    /\ history[1].source = "self"
    /\ \A i \in 2..Len(history) : history[i].source = "user"
    /\ ret.value.unique_sources = 2
    /\ ret.value.total_words = 1
    /\ ret.value.total_trigrams = 1
    /\ ret.value.recent_absorptions = GrowthWindow + 2

\* a record without its timestamp
Untimed(r) == [source |-> r.source, words |-> r.words, trigrams |-> r.trigrams]

\* a history without its timestamps
UntimedAll(h) == [i \in 1..Len(h) |-> Untimed(h[i])]

\* two calls returned equal results, records compared without timestamps
SameResult(a, b) ==
    /\ a.op = b.op
    /\ a.op = "absorb" => Untimed(a.value) = Untimed(b.value)
    /\ a.op = "decay" => a.value = b.value

LongRuns(runs) == SelectSeq(runs, LAMBDA w : Len(w) >= min_word_length)

\* the consecutive triples of the sequence runs, in order
Windows(runs) ==
    [i \in 1..(IF Len(runs) > 2 THEN Len(runs) - 2 ELSE 0) |->
        <<runs[i], runs[i + 1], runs[i + 2]>>]

\* an absorb takes its trigrams from the max(0, n - 2) consecutive triples
\* of all the n runs of the text and its words from the long runs only
C33_ExtractStep ==
    calls' = calls + 1 =>
        LET runs == FindAllWords(ret'.text)
        IN  /\ absorbed_trigrams' = absorbed_trigrams \cup SeqToSet(Windows(runs))
            /\ ret'.value.trigrams = FirstNew(Windows(runs), absorbed_trigrams)
            /\ absorbed_words' = absorbed_words \cup SeqToSet(LongRuns(runs))
            /\ ret'.value.words = FirstNew(LongRuns(runs), absorbed_words)

\* no word shorter than min_word_length is absorbed or weighted
C33_NoShortWord ==
    \A word \in absorbed_words \cup Keys(word_weights) :
        Len(word) >= min_word_length

\* C33: for a text with n word runs, absorb considers exactly the
\* max(0, n - 2) consecutive triples of the unfiltered runs, in order, and
\* absorbs words only from the runs of min_word_length characters or more:
\* a shorter word can be inside an absorbed trigram and is never in
\* absorbed_words.
C33_ExtractionAsymmetry == []C33_NoShortWord /\ [][C33_ExtractStep]_vars

\* "abc bca cab de abc dab" absorbed first: four trigrams, three of them
\* with the word "de", and the four long words, "abc" once
C33_Witness ==
    /\ calls = 1 /\ ret.op = "absorb" /\ ret.text = TextF
    /\ Len(FindAllWords(ret.text)) = 6
    /\ Len(ret.value.trigrams) = 4
    /\ Cardinality(absorbed_trigrams) = 4
    /\ Cardinality({tri \in absorbed_trigrams :
                       \E i \in 1..3 : tri[i] = <<"d", "e">>}) = 3
    /\ ret.value.words = <<<<"a", "b", "c">>, <<"b", "c", "a">>,
                           <<"c", "a", "b">>, <<"d", "a", "b">>>>
    /\ <<"d", "e">> \notin absorbed_words

\* a call has ended: returned, raised the persistence fault, or was cancelled
Ended(t) == pc[t] \in {"done", "failed", "cancelled"}

\* a task waits for the lock only outside the with block, takes the lock at
\* most once, and the lock is held only while some call is in its with
\* block: every exit has released it
C34_HeldInsideOnly ==
    /\ \A t \in Tasks :
          /\ pc[t] = "waiting" <=> t \in SeqToSet(waiters)
          /\ Occurrences(order, t) <= 1
          /\ InCS(t) => t \in SeqToSet(order)
    /\ locked => \E t \in Tasks : InCS(t)

\* a call that waits for the lock gets it unless it is cancelled, and a call
\* that has asked for the lock ends
C34_EveryCallEnds ==
    \A t \in Tasks :
        /\ (pc[t] = "waiting") ~> (InCS(t) \/ Ended(t))
        /\ (pc[t] \in {"waiting", "locked", "persist"}) ~> Ended(t)

\* C34: no call asks for the lock while it holds it, every exit of a call
\* (return, persistence fault, cancellation) releases the lock, and so,
\* every persistence await returning or failing, every call that asks for
\* the lock gets it and ends.
C34_LockLiveness == []C34_HeldInsideOnly /\ C34_EveryCallEnds

\* the first call was cancelled while it persisted, and the call suspended
\* behind it then got the lock and returned
C34_Witness ==
    /\ pc[1] = "cancelled" /\ 1 \in SeqToSet(order)
    /\ 2 \in waited /\ pc[2] = "done"
    /\ order = <<1, 2>>
    /\ ~locked

\* the store was attached when the with statement was entered, and no
\* persistence has failed or been cancelled
AttachedNoFault ==
    /\ db_conn # "none"
    /\ \A t \in Tasks : pc[t] \notin {"failed", "cancelled"}

C36_HandleKept ==
    scope = "left" => db_conn = (IF db_path THEN "closed" ELSE "none")

\* the body of a call that runs with no connection or a closed one is not
\* refused: it makes its call on the Lexicon and returns, or, for an absorb
\* that found something new with the closed connection still set, has
\* absorbed it in memory and goes on to _persist_record
C36_BodyStep ==
    \A t \in Tasks :
        (pc[t] = "locked" /\ pc'[t] # "locked" /\ db_conn # "open") =>
            /\ tret'[t].op = op[t].name
            /\ Durable' = Durable
            /\ IF /\ op[t].name = "absorb"
                  /\ db_conn = "closed"
                  /\ RecordCount(tret'[t].value) > 0
               THEN /\ pc'[t] = "persist" /\ ppos'[t] = 0 /\ locked'
                    /\ SeqToSet(tret'[t].value.words) \subseteq absorbed_words'
                    /\ SeqToSet(tret'[t].value.words) \cap absorbed_words = {}
                    /\ SeqToSet(tret'[t].value.trigrams) \subseteq absorbed_trigrams'
                    /\ SeqToSet(tret'[t].value.trigrams) \cap absorbed_trigrams = {}
                    /\ history'[Len(history')] = tret'[t].value
               ELSE pc'[t] = "done"

\* a write attempted on the closed connection puts no row in the store
C36_ClosedWrite ==
    \A t \in Tasks :
        (pc[t] = "persist" /\ db_conn = "closed" /\ pc'[t] # "persist") =>
            /\ pc'[t] = "failed"
            /\ Durable' = Durable
            /\ Lex' = Lex

\* C36: after __aexit__ the connection handle is still set, so a later
\* absorb that finds something new first changes the memory and then
\* attempts a persistence write on the closed store; no absorb, decay,
\* get_resonant_words or stats is refused for being called with no store
\* attached or with a closed one.
C36_ClosedStore ==
    /\ []C36_HandleKept
    /\ [][C36_BodyStep]_vars
    /\ [][C36_ClosedWrite]_vars

\* the with statement was left and the store closed with nothing in it; an
\* absorb has changed the memory and holds a record it has yet to write,
\* and a call of stats has returned
C36_Witness ==
    /\ db_path /\ scope = "left" /\ db_conn = "closed"
    /\ db_words = <<>> /\ db_trigrams = <<>> /\ db_pending = NoRows
    /\ \E t, u \in Tasks :
          /\ pc[t] = "persist" /\ ppos[t] = 0
          /\ op[t].name = "absorb"
          /\ tret[t].value.words # <<>>
          /\ SeqToSet(tret[t].value.words) \subseteq absorbed_words
          /\ pc[u] = "done" /\ op[u].name = "stats"

====
